---- MODULE Spec2Model ----
(***************************************************************************)
(* Model of the constraint-encoding layer of multilogic and of the puzzle  *)
(* encoders built on it:                                                   *)
(*   util/choice.rs   the Choose iterator (k-subsets of n positions)       *)
(*   util/mod.rs      choices / choose / choose_acc, intersect             *)
(*   util/solve.rs    DnfFormula::add_dnf, add_popcount                    *)
(*   util/integer.rs  one-hot bounded integers (Problem, Var, Model)       *)
(*   util/matrix.rs   Matrix: shape, indices, neighbors                    *)
(*   kdoku/mod.rs     BaseGrid::solve                                      *)
(*   voisimage.rs, binero.rs, kakuro.rs   Problem::solve                   *)
(* A literal is a non-zero integer: v is the positive literal of variable  *)
(* v, -v the negative one.  A clause is a sequence of literals, a formula  *)
(* is a variable count and a sequence of clauses.  An Option is a sequence *)
(* of length 0 (None) or 1 (Some).                                         *)
(***************************************************************************)
EXTENDS Integers, Sequences, FiniteSets, TLC

\* ------------------------------------------------------------------ bounds
MaxN == 5
MaxNones == 2
MaxDnfVars == 2
MaxSize == 6
MaxPopVars == 5
MaxCalls == 1
MaxOps == 3
MaxTop == 4
MaxHi == 4
Side == 2
MaxEncode == 3
MaxEnd == 3

\* the number of kk-subsets of nn positions
RECURSIVE Binom(_, _)
Binom(nn, kk) ==
    IF kk > nn THEN 0
    ELSE IF kk = 0 THEN 1
    ELSE Binom(nn - 1, kk - 1) + Binom(nn - 1, kk)

None == <<>>
Some(x) == <<x>>

\* ------------------------------------------------------ util/choice.rs
Repeat(b, len) == [i \in 1..len |-> b]

\* Positions are 1-based here: position p of the model is index p-1 of the Vec.
\* a panic is told from an Option by its length
Panic == <<"panic", "panic">>

\* Choose::new without its k > n guard
ChooseNew_NoGuard(nn, kk) == Some([i \in 1..nn |-> i <= kk])

\* Choose::new(n, k)
ChooseNew(nn, kk) ==
    IF kk > nn THEN None
    ELSE Some([i \in 1..nn |-> i <= kk])

\* seek.find(|b| !b.1): the last position <= from holding b, 0 when there is none
RFind(state, from, b) ==
    LET hits == {i \in 1..from : state[i] = b}
    IN IF hits = {} THEN 0 ELSE CHOOSE i \in hits : \A j \in hits : j <= i

\* advance moving the one without re-packing the trailing ones behind it
advance_NoRepack(state) ==
    LET len  == Len(state)
        zero == RFind(state, len, FALSE)
        one  == IF zero = 0 THEN 0 ELSE RFind(state, zero - 1, TRUE)
    IN IF zero = 0 \/ one = 0 THEN None
       ELSE Some([i \in 1..len |->
                    IF i = one THEN FALSE ELSE IF i = one + 1 THEN TRUE ELSE state[i]])

\* advance clearing the trailing ones without setting them again
advance_DropTail(state) ==
    LET len  == Len(state)
        zero == RFind(state, len, FALSE)
        one  == IF zero = 0 THEN 0 ELSE RFind(state, zero - 1, TRUE)
    IN IF zero = 0 \/ one = 0 THEN None
       ELSE Some([i \in 1..len |->
                    IF i < one THEN state[i]
                    ELSE IF i = one THEN FALSE
                    ELSE IF i = one + 1 THEN TRUE
                    ELSE IF i > zero THEN FALSE
                    ELSE state[i]])

\* advance(state): the successor of state, None at the end, Panic when a
\* slice would leave the vector
advance(state) ==
    LET len  == Len(state)
        zero == RFind(state, len, FALSE)
        one  == IF zero = 0 THEN 0 ELSE RFind(state, zero - 1, TRUE)
        tail == len - zero + 1
    IN IF zero = 0 \/ one = 0 THEN None
       ELSE IF one + tail > len THEN Panic
       ELSE Some([i \in 1..len |->
                    IF i < one THEN state[i]
                    ELSE IF i = one THEN FALSE
                    ELSE IF i <= one + tail THEN TRUE
                    ELSE IF i > zero THEN FALSE
                    ELSE state[i]])

\* ------------------------------------------------------ util/mod.rs
\* choose_acc taking the false branch before the true one
RECURSIVE choose_acc_FalseFirst(_, _, _)
choose_acc_FalseFirst(acc, nn, kk) ==
    IF nn = 0 THEN <<acc>>
    ELSE (IF kk < nn THEN choose_acc_FalseFirst(Append(acc, FALSE), nn - 1, kk) ELSE <<>>)
         \o (IF kk > 0 THEN choose_acc_FalseFirst(Append(acc, TRUE), nn - 1, kk - 1) ELSE <<>>)

\* choose_acc: the slices f is called on, in order
RECURSIVE choose_acc(_, _, _)
choose_acc(acc, nn, kk) ==
    IF nn = 0 THEN <<acc>>
    ELSE (IF kk > 0 THEN choose_acc(Append(acc, TRUE), nn - 1, kk - 1) ELSE <<>>)
         \o (IF kk < nn THEN choose_acc(Append(acc, FALSE), nn - 1, kk) ELSE <<>>)

\* choose(n, k, f) calls f on each of these, in this order; choices collects them
choices(nn, kk) == choose_acc(<<>>, nn, kk)

\* The sequence of everything Choose::new(nn, kk) yields when run to the end
RECURSIVE Drain(_, _)
Drain(state, acc) ==
    IF state = None \/ state = Panic THEN acc
    ELSE Drain(advance(state[1]), Append(acc, state[1]))

ChooseAll(nn, kk) == Drain(ChooseNew(nn, kk), <<>>)

\* ------------------------------------------------------ the formula (varisat)
\* CnfFormula::new()
NewFormula == [nv |-> 0, clauses |-> <<>>]

\* ExtendFormula::new_var: the new variable is f.nv + 1 of the result
new_var(f) == [f EXCEPT !.nv = @ + 1]

\* add_clause putting the clause in front of the others
add_clause_Front(f, clause) == [f EXCEPT !.clauses = <<clause>> \o @]

\* ExtendFormula::add_clause
add_clause(f, clause) == [f EXCEPT !.clauses = Append(@, clause)]

\* Var::lit(b), Var::positive, Var::negative
Lit(v, b) == IF b THEN v ELSE 0 - v

VarOf(l) == IF l > 0 THEN l ELSE 0 - l

\* m is a sequence of BOOLEAN, one entry per variable; a model holds the
\* literal l when it gives l's variable the polarity of l
Holds(m, l) == IF l > 0 THEN m[l] ELSE ~m[0 - l]

SatClause(m, c) == \E i \in 1..Len(c) : Holds(m, c[i])

\* the concatenation of rows[lo..hi], by halves
RECURSIVE Flatten(_, _, _)
Flatten(rows, lo, hi) ==
    IF lo > hi THEN <<>>
    ELSE IF lo = hi THEN <<>> \o rows[lo]
    ELSE LET mid == (lo + hi) \div 2
         IN Flatten(rows, lo, mid) \o Flatten(rows, mid + 1, hi)

\* The solver's search.  A partial assignment p gives each variable 1
\* (true), 0 (false) or 2 (not yet decided).
Undecided == 2

LitVal(p, l) ==
    IF l > 0 THEN p[l]
    ELSE IF p[0 - l] = Undecided THEN Undecided ELSE 1 - p[0 - l]

\* what a clause tells under p: mark when all its literals are false, its
\* only undecided literal when the others are all false, 0 otherwise
StatusOpen(open, mark) ==
    IF open = {} THEN mark
    ELSE IF Cardinality(open) = 1 THEN CHOOSE l \in open : TRUE
    ELSE 0

Status(p, c, mark) ==
    IF \E i \in 1..Len(c) : LitVal(p, c[i]) = 1 THEN 0
    ELSE StatusOpen({c[i] : i \in {j \in 1..Len(c) : LitVal(p, c[j]) = Undecided}}, mark)

Statuses(f, p) == {Status(p, f.clauses[i], f.nv + 1) : i \in 1..Len(f.clauses)}

\* unit propagation to the end: the assignment reached, or <<>> on a conflict
RECURSIVE Propagate(_, _, _)
RECURSIVE PropagateFrom(_, _)
Propagate(f, p, st) ==
    IF (f.nv + 1) \in st THEN <<>>
    ELSE IF st \subseteq {0} THEN p
    ELSE PropagateFrom(f, <<>> \o [v \in 1..f.nv |->
                                     IF v \in st THEN 1
                                     ELSE IF (0 - v) \in st THEN 0
                                     ELSE p[v]])
PropagateFrom(f, p) == Propagate(f, p, Statuses(f, p))

Decided(f, p) == \A v \in 1..f.nv : p[v] # Undecided

FirstOpen(f, p) == CHOOSE v \in 1..f.nv : p[v] = Undecided /\ \A u \in 1..(v - 1) : p[u] # Undecided

\* the two ways to decide the first undecided variable of p, propagated
Branch(f, p, v) ==
    { PropagateFrom(f, [p EXCEPT ![v] = 1]), PropagateFrom(f, [p EXCEPT ![v] = 0]) } \ {<<>>}

\* ps: conflict-free propagated assignments; each is decided further until
\* all are total
RECURSIVE Search(_, _)
Search(f, ps) ==
    IF \A p \in ps : Decided(f, p) THEN ps
    ELSE Search(f, UNION { IF Decided(f, p) THEN {p} ELSE Branch(f, p, FirstOpen(f, p)) : p \in ps })

\* The satisfying assignments of f, each a sequence of BOOLEAN
Models(f) ==
    IF f.nv = 0
    THEN (IF \E i \in 1..Len(f.clauses) : f.clauses[i] = <<>> THEN {} ELSE {<<>>})
    ELSE { <<>> \o [v \in 1..f.nv |-> p[v] = 1] :
             p \in Search(f, {PropagateFrom(f, <<>> \o [v \in 1..f.nv |-> Undecided])} \ {<<>>}) }

\* ------------------------------------------------------ util/solve.rs
\* The clauses add_dnf appends: product i gets the helper f.nv + i, and
\* one clause [not_hv, term] per term of the product, products in order;
\* the clause of all the helpers comes last.  pol is the polarity of the
\* helper in the clauses of the products, closing is whether the last
\* clause is added.
DnfClauses(f, dnf, pol, closing) ==
    LET rows == [i \in 1..Len(dnf) |->
                    [j \in 1..Len(dnf[i]) |-> <<Lit(f.nv + i, pol), dnf[i][j]>>]]
        helpers == <<>> \o [i \in 1..Len(dnf) |-> Lit(f.nv + i, TRUE)]
    IN Flatten(rows, 1, Len(dnf)) \o (IF closing THEN <<helpers>> ELSE <<>>)

\* add_dnf appending the clause of the helpers before the clauses of the products
add_dnf_CloseFirst(f, dnf) ==
    [nv |-> f.nv + Len(dnf),
     clauses |-> f.clauses
        \o << <<>> \o [i \in 1..Len(dnf) |-> Lit(f.nv + i, TRUE)] >>
        \o DnfClauses(f, dnf, FALSE, FALSE)]

\* add_dnf with the helper positive in the clauses of the products
add_dnf_PosHelper(f, dnf) ==
    [nv |-> f.nv + Len(dnf), clauses |-> f.clauses \o DnfClauses(f, dnf, TRUE, TRUE)]

\* add_dnf without the closing clause over the helpers
add_dnf_NoClose(f, dnf) ==
    [nv |-> f.nv + Len(dnf), clauses |-> f.clauses \o DnfClauses(f, dnf, FALSE, FALSE)]

\* DnfFormula::add_dnf
\* add_dnf adding nothing when there is no term
add_dnf_SkipEmpty(f, dnf) ==
    IF dnf = <<>> THEN f
    ELSE [nv |-> f.nv + Len(dnf), clauses |-> f.clauses \o DnfClauses(f, dnf, FALSE, TRUE)]

add_dnf(f, dnf) ==
    [nv |-> f.nv + Len(dnf), clauses |-> f.clauses \o DnfClauses(f, dnf, FALSE, TRUE)]

\* the products of add_popcount with only the chosen variables in each
Products_ChosenOnly(vs, chs) ==
    <<>> \o [c \in 1..Len(chs) |->
               Flatten([j \in 1..Len(vs) |-> IF chs[c][j] THEN <<vs[j]>> ELSE <<>>],
                       1, Len(vs))]

PopcountDnf_ChosenOnly(vs, kk) == Products_ChosenOnly(vs, ChooseAll(Len(vs), kk))

\* one product per combination ch of chs: v.lit(b) for (b, v) in ch.zip(vars)
Products(vs, chs) ==
    <<>> \o [c \in 1..Len(chs) |-> <<>> \o [j \in 1..Len(vs) |-> Lit(vs[j], chs[c][j])]]

\* the DNF add_popcount builds
PopcountDnf(vs, kk) == Products(vs, ChooseAll(Len(vs), kk))

\* DnfFormula::add_popcount
add_popcount(f, vs, kk) == add_dnf(f, PopcountDnf(vs, kk))

\* ------------------------------------------------------ util/mod.rs
Max(x, y) == IF x >= y THEN x ELSE y
Min(x, y) == IF x <= y THEN x ELSE y

\* intersect taking the larger start one too far
intersect_SkipFirst(a, b) == [lo |-> Max(a.lo, b.lo) + 1, hi |-> Min(b.hi, b.hi)]

\* intersect(a, b): the range lo..=hi, empty when lo > hi;
\* its stop is b.end().min(b.end())
intersect(a, b) == [lo |-> Max(a.lo, b.lo), hi |-> Min(b.hi, b.hi)]

\* ------------------------------------------------------ util/integer.rs
\* A Var is [lo, hi, values]: the range lo..=hi (empty when lo > hi) and
\* one literal per value of the range.
Width(lo, hi) == IF hi >= lo THEN hi - lo + 1 ELSE 0

\* Index<usize> for Var: var[index] is defined when InVar, and panics otherwise
InVar(var, index) == index >= var.lo /\ index - var.lo < Len(var.values)
Index(var, index) == var.values[index - var.lo + 1]

\* Var::values(): the pairs (value, literal), in range order
ValuesOf(var) ==
    <<>> \o [i \in 1..Min(Width(var.lo, var.hi), Len(var.values)) |->
        [val |-> var.lo + i - 1, term |-> var.values[i]]]

\* Model::value: does some literal of var belong to the model (else it panics)
HasValue(m, var) == \E i \in 1..Len(ValuesOf(var)) : Holds(m, ValuesOf(var)[i].term)

\* Model::value: the first value of the range whose literal is in the model
Value(m, var) ==
    LET vs == ValuesOf(var)
        i == CHOOSE x \in 1..Len(vs) :
                Holds(m, vs[x].term) /\ \A y \in 1..(x - 1) : ~Holds(m, vs[y].term)
    IN vs[i].val

\* the mutual exclusion clauses of new_var: for (i, a) in values, for b in
\* values[i+1..], the clause [not a, not b]
ExclusionClauses(values) ==
    LET w == Len(values)
        rows == [i \in 1..w |->
                    [j \in 1..(w - i) |->
                        <<Lit(VarOf(values[i]), FALSE), Lit(VarOf(values[i + j]), FALSE)>>]]
    IN Flatten(rows, 1, w)

\* new_var adding the exclusion clause of every pair in both orders
int_new_var_BothOrders(f, lo, hi) ==
    LET w == Width(lo, hi)
        values == <<>> \o [i \in 1..w |-> f.nv + i]
        f1 == [f EXCEPT !.nv = @ + w]
        f2 == add_clause(f1, values)
        f3 == [f2 EXCEPT !.clauses = @ \o ExclusionClauses(values)
                  \o ExclusionClauses([i \in 1..w |-> values[w + 1 - i]])]
    IN [f |-> f3, v |-> [lo |-> lo, hi |-> hi, values |-> values]]

\* new_var without the mutual exclusion of the last value
int_new_var_Open(f, lo, hi) ==
    LET w == Width(lo, hi)
        values == <<>> \o [i \in 1..w |-> f.nv + i]
        f1 == [f EXCEPT !.nv = @ + w]
        f2 == add_clause(f1, values)
        f3 == [f2 EXCEPT !.clauses = @ \o ExclusionClauses(SubSeq(values, 1, w - 1))]
    IN [f |-> f3, v |-> [lo |-> lo, hi |-> hi, values |-> values]]

\* Problem::new_var(range): the formula after it and the Var it returns
int_new_var(f, lo, hi) ==
    LET w == Width(lo, hi)
        values == <<>> \o [i \in 1..w |-> f.nv + i]
        f1 == [f EXCEPT !.nv = @ + w]
        f2 == add_clause(f1, values)
        f3 == [f2 EXCEPT !.clauses = @ \o ExclusionClauses(values)]
    IN [f |-> f3, v |-> [lo |-> lo, hi |-> hi, values |-> values]]

\* the buffer of sum without the product of the last pair of values
SumBuffer_SkipLast(a, b, res) ==
    LET av == ValuesOf(a)
        bv == ValuesOf(b)
    IN <<>> \o [t \in 1..(Len(av) * Len(bv) - 1) |->
          LET i == ((t - 1) \div Len(bv)) + 1
              j == ((t - 1) % Len(bv)) + 1
          IN <<av[i].term, bv[j].term, Index(res, av[i].val + bv[j].val)>>]

\* the buffer of sum: [av, bv, r[ax+bx]] for (ax, av) in a, (bx, bv) in b
SumBuffer(a, b, res) ==
    LET av == ValuesOf(a)
        bv == ValuesOf(b)
    IN <<>> \o [t \in 1..(Len(av) * Len(bv)) |->
          LET i == ((t - 1) \div Len(bv)) + 1
              j == ((t - 1) % Len(bv)) + 1
          IN <<av[i].term, bv[j].term, Index(res, av[i].val + bv[j].val)>>]

\* does sum index r inside its values for every pair
SumInRange(a, b, res) ==
    \A i \in 1..Len(ValuesOf(a)), j \in 1..Len(ValuesOf(b)) :
        InVar(res, ValuesOf(a)[i].val + ValuesOf(b)[j].val)

\* sum tying the result to ax + bx + 1
int_sum_OffByOne(f, a, b) ==
    LET nv == int_new_var(f, a.lo + b.lo, a.hi + b.hi)
        res == nv.v
        shifted == [res EXCEPT !.values =
                       <<>> \o [i \in 1..Len(@) |-> @[(i % Len(@)) + 1]]]
    IN [f |-> add_dnf(nv.f, SumBuffer(a, b, shifted)), v |-> res, panic |-> FALSE]

\* Problem::sum(a, b)
int_sum(f, a, b) ==
    LET nv == int_new_var(f, a.lo + b.lo, a.hi + b.hi)
        res == nv.v
    IN IF ~SumInRange(a, b, res)
       THEN [f |-> nv.f, v |-> res, panic |-> TRUE]
       ELSE [f |-> add_dnf(nv.f, SumBuffer(a, b, res)), v |-> res, panic |-> FALSE]

\* the loop of not_equals from value i on: it stops at the first index that panics
RECURSIVE NotEqualsLoop(_, _, _, _, _)
NotEqualsLoop(f, a, b, i, stop) ==
    IF i > stop THEN [f |-> f, panic |-> FALSE]
    ELSE IF ~InVar(a, i) \/ ~InVar(b, i) THEN [f |-> f, panic |-> TRUE]
    ELSE NotEqualsLoop(
            add_clause(f, <<Lit(VarOf(Index(a, i)), FALSE), Lit(VarOf(Index(b, i)), FALSE)>>),
            a, b, i + 1, stop)

\* not_equals separating the first common value only
int_not_equals_FirstOnly(f, a, b) ==
    LET rg == intersect(a, b)
    IN NotEqualsLoop(f, a, b, rg.lo, Min(rg.lo, rg.hi))

\* Problem::not_equals(a, b)
int_not_equals(f, a, b) ==
    LET rg == intersect(a, b)
    IN NotEqualsLoop(f, a, b, rg.lo, rg.hi)

\* equals adding the negated literal
int_equals_Negated(f, var, val) ==
    IF ~InVar(var, val) THEN [f |-> f, panic |-> TRUE]
    ELSE [f |-> add_clause(f, <<Lit(VarOf(Index(var, val)), FALSE)>>), panic |-> FALSE]

\* equals returning quietly for a value it cannot index
int_equals_Lenient(f, var, val) ==
    IF ~InVar(var, val) THEN [f |-> f, panic |-> FALSE]
    ELSE [f |-> add_clause(f, <<Index(var, val)>>), panic |-> FALSE]

\* Problem::equals(var, val)
int_equals(f, var, val) ==
    IF ~InVar(var, val) THEN [f |-> f, panic |-> TRUE]
    ELSE [f |-> add_clause(f, <<Index(var, val)>>), panic |-> FALSE]

\* test::one_variable: d over 1..=6 fixed to 5
OneVarD == int_new_var(NewFormula, 1, 6)
OneVarEquals == int_equals(OneVarD.f, OneVarD.v, 5)
OneVarModels == Models(OneVarEquals.f)

\* test::two_variables: a over 1..=6, b over 1..=8, their sum fixed to 14
TwoVarsA == int_new_var(NewFormula, 1, 6)
TwoVarsB == int_new_var(TwoVarsA.f, 1, 8)
TwoVarsSum == int_sum(TwoVarsB.f, TwoVarsA.v, TwoVarsB.v)
TwoVarsEquals == int_equals(TwoVarsSum.f, TwoVarsSum.v, 14)
TwoVarsModels == Models(TwoVarsEquals.f)

\* ------------------------------------------------------ kdoku/mod.rs
\* The grid has Side rows and columns and the values 1..Side; coordinates
\* and value indices are 0-based as in the code.  vars[x][y][v] is created
\* by nested ary!, x outermost.
Coords == 0..(Side - 1)
KVar(x, y, v) == x * Side * Side + y * Side + v + 1

\* the clauses of one cell: at least one value, then for v1, v2 with
\* v1 # v2 the clause [not cell[v1], not cell[v2]]
CellClauses(x, y) ==
    <<[v \in 1..Side |-> Lit(KVar(x, y, v - 1), TRUE)]>>
    \o <<>> \o [t \in 1..(Side * (Side - 1)) |->
          LET v1 == (t - 1) \div (Side - 1)
              o == (t - 1) % (Side - 1)
              v2 == IF o < v1 THEN o ELSE o + 1
          IN <<Lit(KVar(x, y, v1), FALSE), Lit(KVar(x, y, v2), FALSE)>>]

\* each row has each number: for x, for v, the clause over the cells of row x
RowClauses ==
    <<>> \o [t \in 1..(Side * Side) |->
        LET x == (t - 1) \div Side
            v == (t - 1) % Side
        IN <<>> \o [y \in 1..Side |-> Lit(KVar(x, y - 1, v), TRUE)]]

\* each column has each number: for y, for v, the clause over the cells of column y
ColumnClauses ==
    <<>> \o [t \in 1..(Side * Side) |->
        LET y == (t - 1) \div Side
            v == (t - 1) % Side
        IN <<>> \o [x \in 1..Side |-> Lit(KVar(x - 1, y, v), TRUE)]]

\* BaseGrid::new without the clauses of the columns
BaseGridNew_NoColumns ==
    [nv |-> Side * Side * Side,
     clauses |->
        Flatten([t \in 1..(Side * Side) |->
                    CellClauses((t - 1) \div Side, (t - 1) % Side)], 1, Side * Side)
        \o RowClauses]

\* BaseGrid::new
BaseGridNew ==
    [nv |-> Side * Side * Side,
     clauses |->
        Flatten([t \in 1..(Side * Side) |->
                    CellClauses((t - 1) \div Side, (t - 1) % Side)], 1, Side * Side)
        \o RowClauses \o ColumnClauses]

\* u8 and u16: an arithmetic overflow panics in a build with overflow
\* checks and wraps in a build without them
U8 == 256
U16 == 65536

\* a Constraint is [op, result, cells], cells a sequence of <<x, y>>
CellVar(cell, v) == Lit(KVar(cell[1], cell[2], v), TRUE)

\* the closures add_constraint gives make_binary_constraint, on u8:
\* |a,b| a + result == b || b + result == a   and   a * result == b || b * result == a
BinaryLeft(op, a, res) == IF op = "Minus" THEN a + res ELSE a * res
BinaryHolds(op, a, b, res) ==
    \/ BinaryLeft(op, a, res) % U8 = b
    \/ BinaryLeft(op, b, res) % U8 = a
BinaryOverflows(op, a, b, res) ==
    \/ BinaryLeft(op, a, res) >= U8
    \/ BinaryLeft(op, a, res) # b /\ BinaryLeft(op, b, res) >= U8

\* make_binary_constraint: None unless there are exactly two cells, else
\* the terms [v1[x1], v2[x2]] for the pairs the closure accepts, x1 outermost
make_binary_constraint(cells, op, res, checks) ==
    IF Len(cells) # 2 THEN None
    ELSE IF checks /\ \E a \in 1..Side, b \in 1..Side : BinaryOverflows(op, a, b, res)
    THEN Panic
    ELSE Some(
       LET pairs == <<>> \o [t \in 1..(Side * Side) |->
                        <<(t - 1) \div Side, (t - 1) % Side>>]
           kept == SelectSeq(pairs, LAMBDA pr : BinaryHolds(op, pr[1] + 1, pr[2] + 1, res))
       IN <<>> \o [i \in 1..Len(kept) |->
             <<CellVar(cells[1], kept[i][1]), CellVar(cells[2], kept[i][2])>>])

RECURSIVE Pow(_, _)
Pow(b, e) == IF e = 0 THEN 1 ELSE b * Pow(b, e - 1)

\* the t-th element of multi_cartesian_product over m ranges 0..Side-1,
\* the last position varying fastest
Chosen(t, m) == <<>> \o [i \in 1..m |-> (t \div Pow(Side, m - i)) % Side]

\* chosen.iter().map(|&x| x as u16 + 1).fold(z, op) on u16, and whether a
\* step of it overflows
AssocStep(op, acc, x) == IF op = "Plus" THEN acc + x ELSE acc * x
RECURSIVE Fold(_, _, _, _)
Fold(op, chosen, i, acc) ==
    IF i > Len(chosen) THEN acc
    ELSE Fold(op, chosen, i + 1, AssocStep(op, acc, chosen[i] + 1) % U16)
RECURSIVE FoldOverflows(_, _, _, _)
FoldOverflows(op, chosen, i, acc) ==
    IF i > Len(chosen) THEN FALSE
    ELSE \/ AssocStep(op, acc, chosen[i] + 1) >= U16
         \/ FoldOverflows(op, chosen, i + 1, AssocStep(op, acc, chosen[i] + 1) % U16)

\* make_associative_constraint: the terms of the combinations whose fold
\* is r, None when there is none
make_associative_constraint(cells, op, z, res, checks) ==
    LET m == Len(cells)
        all == <<>> \o [t \in 1..Pow(Side, m) |-> Chosen(t - 1, m)]
        kept == SelectSeq(all, LAMBDA ch : Fold(op, ch, 1, z) = res)
    IN IF checks /\ \E t \in 1..Len(all) : FoldOverflows(op, all[t], 1, z)
       THEN Panic
       ELSE IF kept = <<>> THEN None
       ELSE Some(<<>> \o [i \in 1..Len(kept) |->
                   <<>> \o [j \in 1..m |-> CellVar(cells[j], kept[i][j])]])

\* the match of add_constraint on constraint.op
ConstraintTerms(c, checks) ==
    IF c.op = "Plus" THEN make_associative_constraint(c.cells, "Plus", 0, c.result, checks)
    ELSE IF c.op = "Minus" THEN make_binary_constraint(c.cells, "Minus", c.result, checks)
    ELSE IF c.op = "Times" THEN make_associative_constraint(c.cells, "Times", 1, c.result, checks)
    ELSE make_binary_constraint(c.cells, "Div", c.result, checks)

\* BaseGrid::add_dnf
grid_add_dnf(f, dnf) ==
    [nv |-> f.nv + Len(dnf), clauses |-> f.clauses \o DnfClauses(f, dnf, FALSE, TRUE)]

\* BaseGrid::add_constraint: the formula after it and what it returns
add_constraint(f, c, checks) ==
    LET terms == ConstraintTerms(c, checks)
    IN IF terms = Panic THEN [f |-> f, ret |-> "panic"]
       ELSE IF terms = None THEN [f |-> f, ret |-> "ImpossibleConstraint"]
       ELSE IF terms[1] = <<>> THEN [f |-> f, ret |-> "ImpossibleConstraint"]
       ELSE [f |-> grid_add_dnf(f, terms[1]), ret |-> "Ok"]

\* the decoding loop of BaseGrid::solve: U6(0), overwritten by v + 1 for
\* each v in 0..Side whose literal the model contains
RECURSIVE DecodeCell(_, _, _, _, _)
DecodeCell(m, x, y, v, acc) ==
    IF v >= Side THEN acc
    ELSE DecodeCell(m, x, y, v + 1, IF Holds(m, CellVar(<<x, y>>, v)) THEN v + 1 ELSE acc)

DecodeGrid(m) == [x \in Coords |-> [y \in Coords |-> DecodeCell(m, x, y, 0, 0)]]

\* ------------------------------------------------------ util/matrix.rs
\* A Matrix is [stride, vec], vec in row-major order
\* Matrix::shape
shape(mx) == <<Len(mx.vec) \div mx.stride, mx.stride>>

\* Matrix::indices: all the coordinate pairs in row-major order
indices(mx) ==
    <<>> \o [i \in 1..Len(mx.vec) |-> <<(i - 1) \div mx.stride, (i - 1) % mx.stride>>]

\* Index for Matrix: m[x][y]
At(mx, x, y) == mx.vec[x * mx.stride + y + 1]

\* the closure row of Matrix::neighbors
NeighborRow(mx, x, y) ==
    (IF y > 0 THEN << <<x, y - 1>> >> ELSE <<>>)
        \o << <<x, y>> >>
        \o (IF y + 1 < shape(mx)[2] THEN << <<x, y + 1>> >> ELSE <<>>)

\* Matrix::neighbors: the location and its neighbours, truncated at the edge
neighbors(mx, pos) ==
    (IF pos[1] > 0 THEN NeighborRow(mx, pos[1] - 1, pos[2]) ELSE <<>>)
        \o NeighborRow(mx, pos[1], pos[2])
        \o (IF pos[1] + 1 < shape(mx)[1] THEN NeighborRow(mx, pos[1] + 1, pos[2]) ELSE <<>>)

\* ------------------------------------------------------ voisimage.rs
\* A voisimage Problem is a Matrix of Option<u8>.
\* grid[x][y]: the variables of new_var_iter(h * w) on a fresh solver,
\* laid out in a Matrix of the problem's shape
VoisimageVar(p, x, y) == x * p.stride + y + 1

\* the DNF pushed for the hint kk at pos: one alternative per bitmap of
\* choose(neighs.len(), kk), the neighbours zipped with the bitmap
HintDnf(p, pos, kk) ==
    LET neighs == neighbors(p, pos)
        bitmaps == choices(Len(neighs), kk)
    IN <<>> \o [c \in 1..Len(bitmaps) |->
                 <<>> \o [i \in 1..Len(neighs) |->
                    Lit(VoisimageVar(p, neighs[i][1], neighs[i][2]), bitmaps[c][i])]]

\* the loop over grid.indices() from index i on: add_dnf for every hint
RECURSIVE VoisimageHints(_, _, _)
VoisimageHints(p, f, i) ==
    IF i > Len(p.vec) THEN f
    ELSE VoisimageHints(p,
            IF p.vec[i] = None THEN f
            ELSE add_dnf(f, HintDnf(p, indices(p)[i], p.vec[i][1])),
            i + 1)

\* the formula Problem::solve hands to the solver
VoisimageFormula(p) ==
    VoisimageHints(p, [nv |-> Len(p.vec), clauses |-> <<>>], 1)

\* grid.map(|var| good.contains(var)): the Solution of a model
VoisimageSolution(p, m) ==
    [stride |-> p.stride, vec |-> <<>> \o [i \in 1..Len(p.vec) |-> m[i]]]

\* ------------------------------------------------------ binero.rs
\* A binero Problem is a Matrix of Option<bool>.
\* grid[x][y]: the variables of new_var_iter(len) on a fresh solver, laid
\* out in a Matrix of the problem's shape
BineroVar(p, x, y) == x * p.stride + y + 1

\* not_uniform: one clause of the positive literals, one of the negative
not_uniform(f, vs) ==
    add_clause(add_clause(f, <<>> \o [i \in 1..Len(vs) |-> Lit(vs[i], TRUE)]),
               <<>> \o [i \in 1..Len(vs) |-> Lit(vs[i], FALSE)])

\* the body of the loop over grid.indices() at (x, y)
BineroTriple(p, f, x, y) ==
    LET f1 == IF x >= 2
              THEN not_uniform(f, <<BineroVar(p, x - 2, y), BineroVar(p, x - 1, y),
                                    BineroVar(p, x, y)>>)
              ELSE f
    IN IF y >= 2
       THEN not_uniform(f1, <<BineroVar(p, x, y - 2), BineroVar(p, x, y - 1),
                              BineroVar(p, x, y)>>)
       ELSE f1

\* the loop over grid.indices() from index i on (a grid without cells has
\* no index)
RECURSIVE BineroTriples(_, _, _)
BineroTriples(p, f, i) ==
    IF f.nv = 0 \/ i > Len(p.vec) THEN f
    ELSE BineroTriples(p, BineroTriple(p, f, indices(p)[i][1], indices(p)[i][2]), i + 1)

\* for x in 0..size { solver.add_popcount(&grid[x], k) }, from x on
RECURSIVE BineroRows(_, _, _, _)
BineroRows(p, f, x, size) ==
    IF x >= size THEN f
    ELSE BineroRows(p,
            add_popcount(f, <<>> \o [j \in 1..p.stride |-> BineroVar(p, x, j - 1)],
                         size \div 2),
            x + 1, size)

\* for y in 0..size { add_popcount(column y, k) }, from y on
RECURSIVE BineroColumns(_, _, _, _)
BineroColumns(p, f, y, size) ==
    IF y >= size THEN f
    ELSE BineroColumns(p,
            add_popcount(f, <<>> \o [i \in 1..size |-> BineroVar(p, i - 1, y)],
                         size \div 2),
            y + 1, size)

\* self.0.zip_with(&grid, ..): one unit clause per given cell, from index i
\* on (a grid without cells has no pair to zip)
RECURSIVE BineroGivens(_, _, _)
BineroGivens(p, f, i) ==
    IF f.nv = 0 \/ i > Len(p.vec) THEN f
    ELSE BineroGivens(p,
            IF p.vec[i] = None THEN f ELSE add_clause(f, <<Lit(i, p.vec[i][1])>>),
            i + 1)

\* the formula Problem::solve hands to the solver; size is shape().0
BineroFormula(p) ==
    BineroGivens(p,
        BineroColumns(p,
            BineroRows(p,
                BineroTriples(p, [nv |-> Len(p.vec), clauses |-> <<>>], 1),
                0, shape(p)[1]),
            0, shape(p)[1]),
        1)

\* grid.map(|v| m.contains(&v.positive())): the Solution of a model
BineroSolution(p, m) ==
    [stride |-> p.stride, vec |-> <<>> \o [i \in 1..Len(p.vec) |-> m[i]]]

\* ------------------------------------------------------ kakuro.rs
\* A kakuro Constraint is [vertical, index, range, target], range the pair
\* <<start, end>> of a Range (end excluded); a Problem is [shape, constraints].
\* Constraint::cells
KakuroCells(c) ==
    <<>> \o [i \in 1..(c.range[2] - c.range[1]) |->
               IF c.vertical THEN <<c.range[1] + i - 1, c.index>>
               ELSE <<c.index, c.range[1] + i - 1>>]

\* grid[x][y] of a Matrix of the given shape is defined (else the index panics)
InGrid(shp, pos) == pos[1] < shp[1] /\ pos[2] < shp[2]

\* the first loop of a constraint, from cell i on: every cell gets its Var,
\* a new one over 1..=9 unless the grid holds one already
RECURSIVE KakuroVars(_, _, _, _, _, _)
KakuroVars(f, grid, shp, cs, i, cells) ==
    IF i > Len(cs) THEN [f |-> f, grid |-> grid, cells |-> cells, panic |-> FALSE]
    ELSE IF ~InGrid(shp, cs[i]) THEN [f |-> f, grid |-> grid, cells |-> cells, panic |-> TRUE]
    ELSE IF grid[cs[i][1] * shp[2] + cs[i][2] + 1] # None
    THEN KakuroVars(f, grid, shp, cs, i + 1,
                    Append(cells, grid[cs[i][1] * shp[2] + cs[i][2] + 1][1]))
    ELSE KakuroVars(int_new_var(f, 1, 9).f,
                    [grid EXCEPT ![cs[i][1] * shp[2] + cs[i][2] + 1] =
                        Some(int_new_var(f, 1, 9).v)],
                    shp, cs, i + 1, Append(cells, int_new_var(f, 1, 9).v))

\* for other in &cells[..i] { solver.not_equals(cell, other) }, from other j on
\* (cell is cells[i], one-based)
RECURSIVE KakuroExclude(_, _, _, _)
KakuroExclude(f, cells, i, j) ==
    IF j >= i THEN [f |-> f, panic |-> FALSE]
    ELSE IF int_not_equals(f, cells[i], cells[j]).panic
    THEN [f |-> int_not_equals(f, cells[i], cells[j]).f, panic |-> TRUE]
    ELSE KakuroExclude(int_not_equals(f, cells[i], cells[j]).f, cells, i, j + 1)

\* sum = sum.map(|s| solver.sum(&s, cell)); sum.get_or_insert_with(|| cell.clone())
KakuroSum(f, sum, cell) ==
    IF sum = None THEN [f |-> f, v |-> cell, panic |-> FALSE]
    ELSE int_sum(f, sum[1], cell)

\* the second loop of a constraint, from cell i on
RECURSIVE KakuroLink(_, _, _, _)
KakuroLink(f, cells, i, sum) ==
    IF i > Len(cells) THEN [f |-> f, sum |-> sum, panic |-> FALSE]
    ELSE IF KakuroSum(f, sum, cells[i]).panic
    THEN [f |-> KakuroSum(f, sum, cells[i]).f, sum |-> sum, panic |-> TRUE]
    ELSE IF KakuroExclude(KakuroSum(f, sum, cells[i]).f, cells, i, 1).panic
    THEN [f |-> KakuroExclude(KakuroSum(f, sum, cells[i]).f, cells, i, 1).f,
          sum |-> sum, panic |-> TRUE]
    ELSE KakuroLink(KakuroExclude(KakuroSum(f, sum, cells[i]).f, cells, i, 1).f,
                    cells, i + 1, Some(KakuroSum(f, sum, cells[i]).v))

\* solver.equals(sum.as_ref().unwrap(), constraint.target); unwrap panics
\* when the constraint has no cell
KakuroTarget(linked, tgt) ==
    IF linked.panic \/ linked.sum = None THEN [f |-> linked.f, panic |-> TRUE]
    ELSE int_equals(linked.f, linked.sum[1], tgt)

\* the body of the loop over the constraints, on the state [f, grid, panic]
KakuroConstraint(st, shp, c) ==
    LET alloc == KakuroVars(st.f, st.grid, shp, KakuroCells(c), 1, <<>>)
    IN IF alloc.panic THEN [f |-> alloc.f, grid |-> alloc.grid, panic |-> TRUE]
       ELSE [f |-> KakuroTarget(KakuroLink(alloc.f, alloc.cells, 1, None), c.target).f,
             grid |-> alloc.grid,
             panic |-> KakuroTarget(KakuroLink(alloc.f, alloc.cells, 1, None), c.target).panic]

\* for constraint in &self.constraints, from constraint i on
RECURSIVE KakuroEncode(_, _, _)
KakuroEncode(p, st, i) ==
    IF i > Len(p.constraints) \/ st.panic THEN st
    ELSE KakuroEncode(p, KakuroConstraint(st, p.shape, p.constraints[i]), i + 1)

\* the state before the loop: umat![None; shape] and integer::Problem::new()
KakuroStart(p) ==
    [f |-> NewFormula,
     grid |-> <<>> \o [i \in 1..(p.shape[1] * p.shape[2]) |-> None],
     panic |-> FALSE]

\* grid.map(|cell| cell.as_ref().map(|var| model.value(var)))
KakuroSolution(p, grid, m) ==
    [stride |-> p.shape[2],
     vec |-> <<>> \o [i \in 1..Len(grid) |->
                IF grid[i] = None THEN None ELSE Some(Value(m, grid[i][1]))]]

\* the Vars of the grid, in row-major order
RECURSIVE GridVars(_, _)
GridVars(grid, i) ==
    IF i > Len(grid) THEN <<>>
    ELSE (IF grid[i] = None THEN <<>> ELSE grid[i]) \o GridVars(grid, i + 1)

VARIABLES
    n, k,       \* the arguments of Choose::new and of choices
    it,         \* Choose.0, the iterator's Option<Vec<bool>>
    out,        \* what next() has yielded so far, in order
    nones,      \* how many times next() has returned None
    r,          \* Option: the Vec choices(n, k) returned
    formula,    \* the CnfFormula
    uvars,      \* the variables the caller allocated with new_var, in order
    ivars,      \* the Vars the caller holds, in the order new_var and sum returned them
    calls,      \* the encoding calls made so far, with the formula's size around each
    solved,     \* "no", or the outcome of the last solve: "sat" / "unsat"
    model,      \* the model of the last solve when solved = "sat"
    status,     \* "ok", or "panic" once a call has panicked
    top,        \* distinct_numbers: the three Vars are declared over 1..=top
    target,     \* distinct_numbers: the value the iterated sum is fixed to
    decoded,    \* Option: what Model::value returned, or Panic
    constraints,\* kdoku: the constraints given to BaseGrid::solve
    outcome,    \* "running", or what solve returned: "Ok", an error, "panic";
                \* "Some" / "None" for the solvers that return an Option
    solution,   \* the Solution when outcome = "Ok" or "Some"
    solverRuns, \* kdoku: how many times solve has invoked the SAT solver
    problem,    \* the Problem of voisimage, binero or kakuro being solved
    ranges,     \* intersect: the two ranges it is called on
    overlap     \* Option: the range intersect returned

chooseVars == <<n, k, it, out, nones, r>>
formulaVars == <<formula, uvars, ivars, calls, solved, model>>
kdokuVars == <<constraints, outcome, solution, solverRuns, problem, ranges, overlap>>
puzzleVars == <<top, target, decoded, constraints, outcome, solution, solverRuns, problem,
               ranges, overlap>>
vars == <<n, k, it, out, nones, r, formula, uvars, ivars, calls, solved, model, status,
          top, target, decoded, constraints, outcome, solution, solverRuns, problem,
          ranges, overlap>>

\* no grid is being solved
KdokuIdle ==
    /\ constraints = <<>>
    /\ outcome = "idle"
    /\ solution = <<>>
    /\ solverRuns = 0
    /\ problem = <<>>
    /\ ranges = <<>>
    /\ overlap = None

\* no caller program of the integer layer is running
PuzzleIdle ==
    /\ top = 0
    /\ target = 0
    /\ decoded = None
    /\ KdokuIdle

\* ------------------------------------------------ the enumerators' machine
ChooseInit ==
    /\ n \in 0..MaxN
    /\ k \in 0..(MaxN + 1)
    /\ it = ChooseNew(n, k)
    /\ out = <<>>
    /\ nones = 0
    /\ r = None
    /\ formula = NewFormula
    /\ uvars = <<>>
    /\ ivars = <<>>
    /\ calls = <<>>
    /\ solved = "no"
    /\ model = <<>>
    /\ status = "ok"
    /\ PuzzleIdle

\* Iterator::next
IterNext ==
    /\ status = "ok"
    /\ IF it = None
       THEN /\ nones < MaxNones
            /\ nones' = nones + 1
            /\ UNCHANGED <<it, out, status>>
       ELSE LET current == it[1]
                nxt == advance(current)
            IN IF nxt = Panic
               THEN /\ status' = "panic"
                    /\ it' = None
                    /\ UNCHANGED <<out, nones>>
               ELSE /\ it' = nxt
                    /\ out' = Append(out, current)
                    /\ UNCHANGED <<nones, status>>
    /\ UNCHANGED <<n, k, r>>
    /\ UNCHANGED formulaVars
    /\ UNCHANGED puzzleVars

\* choices(n, k)
Choices ==
    /\ status = "ok"
    /\ r = None
    /\ r' = Some(choices(n, k))
    /\ UNCHANGED <<n, k, it, out, nones, status>>
    /\ UNCHANGED formulaVars
    /\ UNCHANGED puzzleVars

ChooseNext == IterNext \/ Choices

SpecChoose == ChooseInit /\ [][ChooseNext]_vars

\* ------------------------------------------------ the formula's machine
\* Problem::new / CnfFormula::new, nothing called yet
FormulaFresh ==
    /\ n = 0
    /\ k = 0
    /\ it = None
    /\ out = <<>>
    /\ nones = 0
    /\ r = None
    /\ formula = NewFormula
    /\ uvars = <<>>
    /\ ivars = <<>>
    /\ calls = <<>>
    /\ solved = "no"
    /\ model = <<>>
    /\ status = "ok"

FormulaInit == FormulaFresh /\ PuzzleIdle

\* one entry of calls
Call(op, dnf, vs, kk, f0, f1) ==
    [op |-> op, dnf |-> dnf, vs |-> vs, k |-> kk,
     nv0 |-> f0.nv, nc0 |-> Len(f0.clauses), nv1 |-> f1.nv, nc1 |-> Len(f1.clauses)]

\* the caller allocates a variable of its own
FNewVar(max) ==
    /\ status = "ok"
    /\ solved = "no"
    /\ Len(uvars) < max
    /\ formula' = new_var(formula)
    /\ uvars' = Append(uvars, formula.nv + 1)
    /\ UNCHANGED <<ivars, calls, solved, model, status>>
    /\ UNCHANGED chooseVars
    /\ UNCHANGED puzzleVars

\* the helper variables and clauses the formula holds so far
Size(f) == (f.nv - Len(uvars)) + Len(f.clauses)

Literals(vs) == {Lit(vs[i], b) : i \in 1..Len(vs), b \in BOOLEAN}

SeqsUpTo(S, len) == UNION {[1..m -> S] : m \in 0..len}

\* the DNFs over the literals lits with (terms + literals) <= w
RECURSIVE DnfsOfWeight(_, _)
DnfsOfWeight(lits, w) ==
    {<<>>} \cup
    (IF w <= 0 THEN {}
     ELSE UNION { { <<t>> \o d : d \in DnfsOfWeight(lits, w - 1 - Len(t)) } :
                  t \in SeqsUpTo(lits, w - 1) })

\* formula.add_dnf(dnf), dnf over the caller's variables
AddDnf ==
    /\ status = "ok"
    /\ solved = "no"
    /\ Size(formula) < MaxSize
    /\ \E dnf \in DnfsOfWeight(Literals(uvars), MaxSize - Size(formula) - 1) :
          LET f1 == add_dnf(formula, dnf)
          IN /\ formula' = f1
             /\ calls' = Append(calls, Call("add_dnf", dnf, <<>>, 0, formula, f1))
    /\ UNCHANGED <<uvars, ivars, solved, model, status>>
    /\ UNCHANGED chooseVars
    /\ UNCHANGED puzzleVars

\* formula.add_popcount(&uvars[..j], kk)
AddPopcount ==
    /\ status = "ok"
    /\ solved = "no"
    /\ Len(calls) < MaxCalls
    /\ \E j \in 0..Len(uvars) :
          \E kk \in 0..(j + 1) :
             LET vs == SubSeq(uvars, 1, j)
                 f1 == add_popcount(formula, vs, kk)
             IN /\ formula' = f1
                /\ calls' = Append(calls,
                      Call("add_popcount", PopcountDnf(vs, kk), vs, kk, formula, f1))
    /\ UNCHANGED <<uvars, ivars, solved, model, status>>
    /\ UNCHANGED chooseVars
    /\ UNCHANGED puzzleVars

\* Solver::add_formula, solve, model: any satisfying assignment, or none.
\* The formula is handed over once, when it is finished.
FSolve ==
    /\ status = "ok"
    /\ solved = "no"
    /\ LET ms == Models(formula)
       IN IF ms = {}
          THEN solved' = "unsat" /\ model' = <<>>
          ELSE solved' = "sat" /\ model' \in ms
    /\ UNCHANGED <<formula, uvars, ivars, calls, status>>
    /\ UNCHANGED chooseVars
    /\ UNCHANGED puzzleVars

DnfNext == FNewVar(MaxDnfVars) \/ AddDnf

SpecDnf == FormulaInit /\ [][DnfNext]_vars

PopNext == FNewVar(MaxPopVars) \/ AddPopcount \/ FSolve

SpecPop == FormulaInit /\ [][PopNext]_vars

\* ------------------------------------------------ the integer Problem's machine
\* the ranges the caller declares: overlapping, nested, disjoint, and empty
RangeInputs == {<<1, 2>>, <<2, 3>>, <<1, 3>>, <<3, 3>>, <<2, 1>>}

\* one entry of calls: the operands a, b and the result res are indices of ivars
ICall(op, a, b, val, res, f0, f1, panic) ==
    [op |-> op, a |-> a, b |-> b, val |-> val, res |-> res, panic |-> panic,
     nv0 |-> f0.nv, nc0 |-> Len(f0.clauses), nv1 |-> f1.nv, nc1 |-> Len(f1.clauses)]

Outcome(panic) == IF panic THEN "panic" ELSE "ok"

Ready ==
    /\ status = "ok"
    /\ solved = "no"
    /\ Len(calls) < MaxOps

\* let v = ip.new_var(lo..=hi)
INewVar ==
    /\ Ready
    /\ \E rg \in RangeInputs :
          LET res == int_new_var(formula, rg[1], rg[2])
          IN /\ formula' = res.f
             /\ ivars' = Append(ivars, res.v)
             /\ calls' = Append(calls,
                   ICall("new_var", 0, 0, 0, Len(ivars) + 1, formula, res.f, FALSE))
    /\ UNCHANGED <<uvars, solved, model, status>>
    /\ UNCHANGED chooseVars
    /\ UNCHANGED puzzleVars

\* let s = ip.sum(&a, &b)
ISum ==
    /\ Ready
    /\ \E a \in 1..Len(ivars), b \in 1..Len(ivars) :
          LET res == int_sum(formula, ivars[a], ivars[b])
          IN /\ formula' = res.f
             /\ ivars' = IF res.panic THEN ivars ELSE Append(ivars, res.v)
             /\ calls' = Append(calls,
                   ICall("sum", a, b, 0, Len(ivars) + 1, formula, res.f, res.panic))
             /\ status' = Outcome(res.panic)
    /\ UNCHANGED <<uvars, solved, model>>
    /\ UNCHANGED chooseVars
    /\ UNCHANGED puzzleVars

\* ip.not_equals(&a, &b)
INotEquals ==
    /\ Ready
    /\ \E a \in 1..Len(ivars), b \in 1..Len(ivars) :
          LET res == int_not_equals(formula, ivars[a], ivars[b])
          IN /\ formula' = res.f
             /\ calls' = Append(calls,
                   ICall("not_equals", a, b, 0, 0, formula, res.f, res.panic))
             /\ status' = Outcome(res.panic)
    /\ UNCHANGED <<uvars, ivars, solved, model>>
    /\ UNCHANGED chooseVars
    /\ UNCHANGED puzzleVars

\* ip.equals(&a, val), val around the range of a
IEquals ==
    /\ Ready
    /\ \E a \in 1..Len(ivars) :
          \E val \in (ivars[a].lo - 1)..(ivars[a].hi + 1) :
             LET res == int_equals(formula, ivars[a], val)
             IN /\ formula' = res.f
                /\ calls' = Append(calls,
                      ICall("equals", a, 0, val, 0, formula, res.f, res.panic))
                /\ status' = Outcome(res.panic)
    /\ UNCHANGED <<uvars, ivars, solved, model>>
    /\ UNCHANGED chooseVars
    /\ UNCHANGED puzzleVars

\* Problem::solve
IntNext == INewVar \/ ISum \/ INotEquals \/ IEquals \/ FSolve

SpecInt == FormulaInit /\ [][IntNext]_vars

\* ------------------------------------------------ test::distinct_numbers
\* the program of the test, for three Vars over 1..=top and a sum fixed to
\* target; the test itself has top = 9 and target = 7
DistinctInputs ==
    UNION {{<<t, tg>> : tg \in 0..(3 * t + 1)} : t \in 1..MaxTop} \cup {<<9, 7>>}

DistinctInit ==
    /\ FormulaFresh
    /\ \E inp \in DistinctInputs : top = inp[1] /\ target = inp[2]
    /\ decoded = None
    /\ KdokuIdle

DistinctStep(at) ==
    /\ status = "ok"
    /\ solved = "no"
    /\ Len(calls) \in at

\* let a = ip.new_var(1..=9), then b, then c
DNewVar ==
    /\ DistinctStep(0..2)
    /\ LET res == int_new_var(formula, 1, top)
       IN /\ formula' = res.f
          /\ ivars' = Append(ivars, res.v)
          /\ calls' = Append(calls,
                ICall("new_var", 0, 0, 0, Len(ivars) + 1, formula, res.f, FALSE))
    /\ UNCHANGED <<uvars, solved, model, status>>
    /\ UNCHANGED chooseVars
    /\ UNCHANGED puzzleVars

\* ip.not_equals(&a, &b); ip.not_equals(&a, &c); ip.not_equals(&c, &b)
DistinctPairs == <<<<1, 2>>, <<1, 3>>, <<3, 2>>>>

DNotEquals ==
    /\ DistinctStep(3..5)
    /\ LET pr == DistinctPairs[Len(calls) - 2]
           res == int_not_equals(formula, ivars[pr[1]], ivars[pr[2]])
       IN /\ formula' = res.f
          /\ calls' = Append(calls,
                ICall("not_equals", pr[1], pr[2], 0, 0, formula, res.f, res.panic))
          /\ status' = Outcome(res.panic)
    /\ UNCHANGED <<uvars, ivars, solved, model>>
    /\ UNCHANGED chooseVars
    /\ UNCHANGED puzzleVars

\* let r = ip.sum(&a, &b); let r = ip.sum(&r, &c)
DSum ==
    /\ DistinctStep(6..7)
    /\ LET a == IF Len(calls) = 6 THEN 1 ELSE 4
           b == IF Len(calls) = 6 THEN 2 ELSE 3
           res == int_sum(formula, ivars[a], ivars[b])
       IN /\ formula' = res.f
          /\ ivars' = IF res.panic THEN ivars ELSE Append(ivars, res.v)
          /\ calls' = Append(calls,
                ICall("sum", a, b, 0, Len(ivars) + 1, formula, res.f, res.panic))
          /\ status' = Outcome(res.panic)
    /\ UNCHANGED <<uvars, solved, model>>
    /\ UNCHANGED chooseVars
    /\ UNCHANGED puzzleVars

\* ip.equals(&r, 7)
DEquals ==
    /\ DistinctStep(8..8)
    /\ LET res == int_equals(formula, ivars[5], target)
       IN /\ formula' = res.f
          /\ calls' = Append(calls,
                ICall("equals", 5, 0, target, 0, formula, res.f, res.panic))
          /\ status' = Outcome(res.panic)
    /\ UNCHANGED <<uvars, ivars, solved, model>>
    /\ UNCHANGED chooseVars
    /\ UNCHANGED puzzleVars

\* let m = ip.solve()
DSolve ==
    /\ DistinctStep(9..9)
    /\ FSolve

DistinctNext == DNewVar \/ DNotEquals \/ DSum \/ DEquals \/ DSolve

SpecDistinct == DistinctInit /\ [][DistinctNext]_vars

\* ------------------------------------------------ Model::value's machine
\* a Var of a fresh Problem and any Model over its literals
BoolSeqs(len) == [1..len -> BOOLEAN]

ValueInit ==
    /\ n = 0
    /\ k = 0
    /\ it = None
    /\ out = <<>>
    /\ nones = 0
    /\ r = None
    /\ uvars = <<>>
    /\ calls = <<>>
    /\ solved = "sat"
    /\ status = "ok"
    /\ top = 0
    /\ target = 0
    /\ decoded = None
    /\ KdokuIdle
    /\ \E lo \in 0..2, hi \in 0..MaxHi :
          LET res == int_new_var(NewFormula, lo, hi)
          IN /\ formula = res.f
             /\ ivars = <<res.v>>
             /\ model \in BoolSeqs(res.f.nv)

\* m.value(&var)
Decode ==
    /\ status = "ok"
    /\ decoded = None
    /\ decoded' = IF HasValue(model, ivars[1])
                  THEN Some(Value(model, ivars[1]))
                  ELSE Panic
    /\ status' = Outcome(~HasValue(model, ivars[1]))
    /\ UNCHANGED <<top, target>>
    /\ UNCHANGED kdokuVars
    /\ UNCHANGED formulaVars
    /\ UNCHANGED chooseVars

ValueNext == Decode

SpecValue == ValueInit /\ [][ValueNext]_vars

\* ------------------------------------------------ the kdoku grid's machine
\* the cell lists of the constraints: one cell, two cells of a row, two
\* cells of a diagonal, three cells
CageInputs ==
    { <<<<0, 0>>>>,
      <<<<0, 0>>, <<0, 1>>>>,
      <<<<0, 0>>, <<1, 1>>>>,
      <<<<0, 0>>, <<0, 1>>, <<1, 1>>>> }

Ops == {"Plus", "Minus", "Times", "Div"}

\* the results: small ones, and the largest u8
ResultInputs == {1, 2, 3, 255}

ConstraintInputs == [op : Ops, result : ResultInputs, cells : CageInputs]

\* the lists given to solve: no constraint, one, or two
ConstraintLists ==
    {<<>>} \cup {<<c>> : c \in ConstraintInputs}
           \cup {<<c, d>> : c \in ConstraintInputs, d \in ConstraintInputs}

\* BaseGrid::new().solve(&constraints) has been called
KdokuInit ==
    /\ n = 0
    /\ k = 0
    /\ it = None
    /\ out = <<>>
    /\ nones = 0
    /\ r = None
    /\ formula = BaseGridNew
    /\ uvars = <<>>
    /\ ivars = <<>>
    /\ calls = <<>>
    /\ solved = "no"
    /\ model = <<>>
    /\ status = "ok"
    /\ top = 0
    /\ target = 0
    /\ decoded = None
    /\ constraints \in ConstraintLists
    /\ outcome = "running"
    /\ solution = <<>>
    /\ solverRuns = 0
    /\ problem = <<>>
    /\ ranges = <<>>
    /\ overlap = None

\* one entry of calls: add_constraint on constraints[index]
KCall(index, ret, f0, f1) ==
    [op |-> "add_constraint", index |-> index, ret |-> ret,
     nv0 |-> f0.nv, nc0 |-> Len(f0.clauses), nv1 |-> f1.nv, nc1 |-> Len(f1.clauses)]

\* for c in constraints { self.add_constraint(c)? }: one iteration; the
\* build decides whether an overflow panics or wraps
KAddConstraint ==
    /\ outcome = "running"
    /\ Len(calls) < Len(constraints)
    /\ \E checks \in BOOLEAN :
          LET res == add_constraint(formula, constraints[Len(calls) + 1], checks)
          IN /\ formula' = res.f
             /\ calls' = Append(calls, KCall(Len(calls) + 1, res.ret, formula, res.f))
             /\ outcome' = IF res.ret = "Ok" THEN "running" ELSE res.ret
             /\ status' = Outcome(res.ret = "panic")
    /\ UNCHANGED <<uvars, ivars, solved, model>>
    /\ UNCHANGED <<top, target, decoded, constraints, solution, solverRuns, problem, ranges, overlap>>
    /\ UNCHANGED chooseVars

\* the rest of solve: the solver runs on the formula, and the model is
\* decoded into the Solution
KSolve ==
    /\ outcome = "running"
    /\ Len(calls) = Len(constraints)
    /\ solverRuns' = solverRuns + 1
    /\ LET ms == Models(formula)
       IN IF ms = {}
          THEN /\ solved' = "unsat"
               /\ outcome' = "Unsatisfyable"
               /\ UNCHANGED <<model, solution>>
          ELSE /\ solved' = "sat"
               /\ outcome' = "Ok"
               /\ \E m \in ms : model' = m /\ solution' = DecodeGrid(m)
    /\ UNCHANGED <<formula, uvars, ivars, calls, status>>
    /\ UNCHANGED <<top, target, decoded, constraints, problem, ranges, overlap>>
    /\ UNCHANGED chooseVars

KdokuNext == KAddConstraint \/ KSolve

SpecKdoku == KdokuInit /\ [][KdokuNext]_vars

\* ------------------------------------------------ the voisimage machine
\* what a cell of the input can hold: '.', or a digit
HintInputs == {None} \cup {Some(d) : d \in 0..5}

\* the grids given to solve: every 2 x 2 grid over HintInputs, a row, a
\* column, a 9 in a corner, and the grids of the tests all_empty,
\* all_full and small::solve
VoisimageInputs ==
    {[stride |-> 2, vec |-> <<a, b, c, d>>] :
         a \in HintInputs, b \in HintInputs, c \in HintInputs, d \in HintInputs}
    \cup {[stride |-> 3, vec |-> <<Some(a), None, Some(b)>>] : a \in 0..3, b \in 0..3}
    \cup {[stride |-> 1, vec |-> <<None, Some(a), None>>] : a \in 0..4}
    \cup { [stride |-> 2, vec |-> <<Some(9), None, None, None>>],
           [stride |-> 3, vec |-> <<None, None, None, None, Some(0), None, None, None, None>>],
           [stride |-> 3, vec |-> <<None, None, None, None, Some(9), None, None, None, None>>],
           [stride |-> 3, vec |-> <<Some(2), Some(4), Some(3), Some(3), Some(5), Some(3),
                                    Some(2), Some(3), Some(1)>>] }

\* no solver of an Option-returning puzzle has been called on a problem
OptionInit(inputs) ==
    /\ n = 0
    /\ k = 0
    /\ it = None
    /\ out = <<>>
    /\ nones = 0
    /\ r = None
    /\ formula = NewFormula
    /\ uvars = <<>>
    /\ ivars = <<>>
    /\ calls = <<>>
    /\ solved = "no"
    /\ model = <<>>
    /\ status = "ok"
    /\ top = 0
    /\ target = 0
    /\ decoded = None
    /\ constraints = <<>>
    /\ outcome = "running"
    /\ solution = <<>>
    /\ solverRuns = 0
    /\ problem \in inputs
    /\ ranges = <<>>
    /\ overlap = None

VoisimageInit == OptionInit(VoisimageInputs)

\* Problem::solve of voisimage: the hints are encoded, the solver runs,
\* and the model is mapped onto the grid
VoisimageSolve ==
    /\ outcome = "running"
    /\ formula' = VoisimageFormula(problem)
    /\ LET ms == Models(VoisimageFormula(problem))
       IN IF ms = {}
          THEN /\ solved' = "unsat"
               /\ outcome' = "None"
               /\ UNCHANGED <<model, solution>>
          ELSE /\ solved' = "sat"
               /\ outcome' = "Some"
               /\ \E m \in ms : model' = m /\ solution' = VoisimageSolution(problem, m)
    /\ UNCHANGED <<uvars, ivars, calls, status>>
    /\ UNCHANGED <<top, target, decoded, constraints, solverRuns, problem, ranges, overlap>>
    /\ UNCHANGED chooseVars

VoisimageNext == VoisimageSolve

SpecVoisimage == VoisimageInit /\ [][VoisimageNext]_vars

\* ------------------------------------------------ the binero machine
\* what a cell of the input can hold: blank, '0' or '1'
BitInputs == {None, Some(FALSE), Some(TRUE)}

\* the blank N x N grid
Blank(size) == [stride |-> size, vec |-> <<>> \o [i \in 1..(size * size) |-> None]]

\* the grids given to solve: every 1 x 1 and 2 x 2 grid, and the 3 x 3 and
\* 4 x 4 grids with at most two given cells, in the first row
BineroInputs ==
    {[stride |-> 1, vec |-> <<a>>] : a \in BitInputs}
    \cup {[stride |-> 2, vec |-> <<a, b, c, d>>] :
             a \in BitInputs, b \in BitInputs, c \in BitInputs, d \in BitInputs}
    \cup {[Blank(size) EXCEPT !.vec[1] = a, !.vec[2] = b] :
             size \in {3, 4}, a \in BitInputs, b \in BitInputs}

BineroInit == OptionInit(BineroInputs)

\* Problem::solve of binero: the rules and the given cells are encoded,
\* the solver runs, and the model is mapped onto the grid
BineroSolve ==
    /\ outcome = "running"
    /\ formula' = BineroFormula(problem)
    /\ LET ms == Models(BineroFormula(problem))
       IN IF ms = {}
          THEN /\ solved' = "unsat"
               /\ outcome' = "None"
               /\ UNCHANGED <<model, solution>>
          ELSE /\ solved' = "sat"
               /\ outcome' = "Some"
               /\ \E m \in ms : model' = m /\ solution' = BineroSolution(problem, m)
    /\ UNCHANGED <<uvars, ivars, calls, status>>
    /\ UNCHANGED <<top, target, decoded, constraints, solverRuns, problem, ranges, overlap>>
    /\ UNCHANGED chooseVars

BineroNext == BineroSolve

SpecBinero == BineroInit /\ [][BineroNext]_vars

\* ------------------------------------------------ the kakuro machine
Across(index, from, to, tgt) ==
    [vertical |-> FALSE, index |-> index, range |-> <<from, to>>, target |-> tgt]

Down(index, from, to, tgt) ==
    [vertical |-> TRUE, index |-> index, range |-> <<from, to>>, target |-> tgt]

\* the problems given to solve: one cell; a row of two cells, with targets
\* inside and outside 2..=18; a row and a column sharing the cell (0, 0) of
\* a 2 x 2 grid; a constraint leaving the grid; a constraint without cell;
\* and the problem of test::tiny_kakuro
KakuroInputs ==
    {[shape |-> <<1, 1>>, constraints |-> <<Across(0, 0, 1, t)>>] : t \in {1, 5, 9}}
    \cup {[shape |-> <<1, 2>>, constraints |-> <<Across(0, 0, 2, t)>>] : t \in 1..19}
    \cup {[shape |-> <<1, 3>>, constraints |-> <<Across(0, 1, 3, t)>>] : t \in {3, 11}}
    \cup {[shape |-> <<2, 2>>, constraints |-> <<Across(0, 0, 2, t), Down(0, 0, 2, u)>>] :
             t \in {3, 4, 17}, u \in {3, 4, 16}}
    \cup { [shape |-> <<2, 2>>, constraints |-> <<>>],
           [shape |-> <<1, 2>>, constraints |-> <<Across(0, 0, 3, 6)>>],
           [shape |-> <<1, 2>>, constraints |-> <<Across(0, 1, 1, 6)>>],
           [shape |-> <<2, 3>>,
            constraints |-> <<Down(0, 0, 2, 7), Down(1, 0, 2, 10), Down(2, 0, 2, 13),
                              Across(0, 0, 3, 7), Across(1, 0, 3, 23)>>] }

KakuroInit == OptionInit(KakuroInputs)

\* Problem::solve of kakuro: the constraints are encoded on the integer
\* Problem, the solver runs, and the grid of Vars is mapped onto values
KakuroSolve ==
    /\ outcome = "running"
    /\ LET st == KakuroEncode(problem, KakuroStart(problem), 1)
       IN /\ formula' = st.f
          /\ ivars' = GridVars(st.grid, 1)
          /\ status' = Outcome(st.panic)
          /\ IF st.panic
             THEN /\ outcome' = "panic"
                  /\ UNCHANGED <<solved, model, solution>>
             ELSE LET ms == Models(st.f)
                  IN IF ms = {}
                     THEN /\ solved' = "unsat"
                          /\ outcome' = "None"
                          /\ UNCHANGED <<model, solution>>
                     ELSE /\ solved' = "sat"
                          /\ outcome' = "Some"
                          /\ \E m \in ms :
                                /\ model' = m
                                /\ solution' = KakuroSolution(problem, st.grid, m)
    /\ UNCHANGED <<uvars, calls>>
    /\ UNCHANGED <<top, target, decoded, constraints, solverRuns, problem, ranges, overlap>>
    /\ UNCHANGED chooseVars

KakuroNext == KakuroSolve

SpecKakuro == KakuroInit /\ [][KakuroNext]_vars

\* ------------------------------------------------ the encoders' machine
\* a caller mixing the six encoding operations on one formula, at most
\* MaxEncode of them
Encoding == status = "ok" /\ Len(calls) < MaxEncode

\* the DNFs the caller passes: no product, an empty product, one literal,
\* two products
DnfInputs == { <<>>, << <<>> >>, << <<1>> >>, << <<1, 0 - 2>>, <<2>> >> }

\* formula.add_dnf(dnf), dnf over variables the formula has
EAddDnf ==
    /\ Encoding
    /\ \E dnf \in DnfInputs :
          /\ \A t \in 1..Len(dnf) : \A j \in 1..Len(dnf[t]) : VarOf(dnf[t][j]) <= formula.nv
          /\ formula' = add_dnf(formula, dnf)
          /\ calls' = Append(calls,
                Call("add_dnf", dnf, <<>>, 0, formula, add_dnf(formula, dnf)))
    /\ UNCHANGED <<uvars, ivars, solved, model, status>>
    /\ UNCHANGED chooseVars
    /\ UNCHANGED puzzleVars

\* formula.add_popcount(vars, kk), vars the variables of a Var's literals
EAddPopcount ==
    /\ Encoding
    /\ \E a \in 1..Len(ivars), kk \in 0..2 :
          /\ formula' = add_popcount(formula, ivars[a].values, kk)
          /\ calls' = Append(calls,
                Call("add_popcount", PopcountDnf(ivars[a].values, kk), ivars[a].values, kk,
                     formula, add_popcount(formula, ivars[a].values, kk)))
    /\ UNCHANGED <<uvars, ivars, solved, model, status>>
    /\ UNCHANGED chooseVars
    /\ UNCHANGED puzzleVars

EncodeNext ==
    \/ EAddDnf
    \/ EAddPopcount
    \/ (Encoding /\ INewVar)
    \/ (Encoding /\ ISum)
    \/ (Encoding /\ INotEquals)
    \/ (Encoding /\ IEquals)

SpecEncode == FormulaInit /\ [][EncodeNext]_vars

\* ------------------------------------------------ intersect's machine
\* the ranges lo..=hi with both ends in 0..MaxEnd, the empty ones included
RangesUpTo(top_) == [lo : 0..top_, hi : 0..top_]

\* intersect is about to be called on two ranges
IntersectInit ==
    /\ n = 0
    /\ k = 0
    /\ it = None
    /\ out = <<>>
    /\ nones = 0
    /\ r = None
    /\ formula = NewFormula
    /\ uvars = <<>>
    /\ ivars = <<>>
    /\ calls = <<>>
    /\ solved = "no"
    /\ model = <<>>
    /\ status = "ok"
    /\ top = 0
    /\ target = 0
    /\ decoded = None
    /\ constraints = <<>>
    /\ outcome = "idle"
    /\ solution = <<>>
    /\ solverRuns = 0
    /\ problem = <<>>
    /\ ranges \in RangesUpTo(MaxEnd) \X RangesUpTo(MaxEnd)
    /\ overlap = None

\* intersect(a, b)
Intersect ==
    /\ ranges # <<>>
    /\ overlap = None
    /\ overlap' = Some(intersect(ranges[1], ranges[2]))
    /\ UNCHANGED <<top, target, decoded, constraints, outcome, solution, solverRuns, problem,
                   ranges>>
    /\ UNCHANGED <<formula, uvars, ivars, calls, solved, model, status>>
    /\ UNCHANGED chooseVars

IntersectNext == Intersect

SpecIntersect == IntersectInit /\ [][IntersectNext]_vars

\* ------------------------------------------------ properties of the enumerators
CountTrue(s) == Cardinality({i \in 1..Len(s) : s[i]})

\* all indicator sequences of length nn with kk true positions
KSubsets(nn, kk) == {s \in [1..nn -> BOOLEAN] : CountTrue(s) = kk}

\* a before b, comparing position by position from the first, TRUE before FALSE
Less(a, b) ==
    \E i \in 1..Len(a) :
        /\ \A j \in 1..(i - 1) : a[j] = b[j]
        /\ a[i]
        /\ ~b[i]

\* C6: iterating Choose::new(n, k) never fails, yields only sequences of
\* length n with exactly k true positions, no two equal, never more than
\* C(n,k) of them; once the iterator is exhausted exactly C(n,k) were
\* yielded, and next() returns None only then.
C6_ChooseYieldsBinomDistinct ==
    /\ status = "ok"
    /\ \A i \in 1..Len(out) : Len(out[i]) = n /\ CountTrue(out[i]) = k
    /\ \A i, j \in 1..Len(out) : i # j => out[i] # out[j]
    /\ Len(out) <= Binom(n, k)
    /\ it = None => Len(out) = Binom(n, k)
    /\ nones > 0 => it = None

C6_Witness == n = MaxN /\ k = 2 /\ nones > 0 /\ Len(out) = Binom(MaxN, 2)

\* C7: Choose::new(n, 0) yields exactly the all-false sequence, Choose::new(n, n)
\* exactly the all-true sequence, and Choose::new(n, k) with k > n yields
\* nothing, without failing.
C7_ChooseDegenerate ==
    /\ status = "ok"
    /\ k > n => out = <<>> /\ it = None
    /\ k = 0 => IF it = None THEN out = <<Repeat(FALSE, n)>> ELSE out = <<>>
    /\ k = n => IF it = None THEN out = <<Repeat(TRUE, n)>> ELSE out = <<>>

C7_Witness == k > n /\ n > 0 /\ nones > 0 /\ out = <<>>

\* C8: Choose::new(n, k) emits the k-subsets in one fixed order: first the one
\* with the true values at positions 0..k, each next one the immediate
\* successor of the previous among all k-subsets (TRUE before FALSE, compared
\* from index 0), last the one with the true values at positions n-k..n; for
\* n = 5, k = 2 this is the list of test::choose_5_2.
Choose52 ==
    << <<TRUE, TRUE, FALSE, FALSE, FALSE>>,
       <<TRUE, FALSE, TRUE, FALSE, FALSE>>,
       <<TRUE, FALSE, FALSE, TRUE, FALSE>>,
       <<TRUE, FALSE, FALSE, FALSE, TRUE>>,
       <<FALSE, TRUE, TRUE, FALSE, FALSE>>,
       <<FALSE, TRUE, FALSE, TRUE, FALSE>>,
       <<FALSE, TRUE, FALSE, FALSE, TRUE>>,
       <<FALSE, FALSE, TRUE, TRUE, FALSE>>,
       <<FALSE, FALSE, TRUE, FALSE, TRUE>>,
       <<FALSE, FALSE, FALSE, TRUE, TRUE>> >>

C8_ChooseFixedOrder ==
    /\ out # <<>> => out[1] = [i \in 1..n |-> i <= k]
    /\ \A i \in 1..(Len(out) - 1) :
          /\ Less(out[i], out[i + 1])
          /\ ~ \E s \in KSubsets(n, k) : Less(out[i], s) /\ Less(s, out[i + 1])
    /\ (it = None /\ out # <<>>) => out[Len(out)] = [i \in 1..n |-> i > n - k]
    /\ (it = None /\ n = 5 /\ k = 2) => out = Choose52

C8_Witness == it = None /\ out = Choose52

\* C9: choices(n, k) is one all-false sequence of length n when k = 0, one
\* all-true sequence of length n when k = n, and empty when k > n.
C9_ChoicesDegenerate ==
    r # None =>
        /\ k = 0 => r[1] = <<Repeat(FALSE, n)>>
        /\ k = n => r[1] = <<Repeat(TRUE, n)>>
        /\ k > n => r[1] = <<>>

\* ------------------------------------------------ properties of the DNF encoder
\* the variables call c allocated, and the clauses it appended
HelperCount(c) == c.nv1 - c.nv0
Appended(c) == (c.nc0 + 1)..c.nc1

TermTrue(a, term) == \A j \in 1..Len(term) : Holds(a, term[j])

\* C1: for every add_dnf call, an assignment of the variables that existed
\* before the call extends by some assignment of the call's helper variables
\* to one that satisfies all the clauses the call appended if and only if one
\* of the terms given to the call has all its literals true under it.
C1_DnfEquivalence ==
    \A ci \in 1..Len(calls) :
        LET c == calls[ci]
        IN c.op = "add_dnf" =>
             \A a \in [1..c.nv0 -> BOOLEAN] :
                (\E h \in [1..HelperCount(c) -> BOOLEAN] :
                    \A i \in Appended(c) : SatClause(a \o h, formula.clauses[i]))
                <=> (\E t \in 1..Len(c.dnf) : TermTrue(a, c.dnf[t]))

C1_Witness ==
    \E ci \in 1..Len(calls) :
        LET c == calls[ci]
        IN /\ c.op = "add_dnf"
           /\ Len(c.dnf) = 2
           /\ Len(c.dnf[1]) = 2
           /\ Len(c.dnf[2]) = 1
           /\ \E a \in [1..c.nv0 -> BOOLEAN] : TermTrue(a, c.dnf[1])
           /\ \E a \in [1..c.nv0 -> BOOLEAN] : ~TermTrue(a, c.dnf[1]) /\ ~TermTrue(a, c.dnf[2])

\* C4: in every model the solver returns, for every add_popcount(vars, k)
\* made on the formula, exactly k of the variables of vars are true.
C4_PopcountExact ==
    solved = "sat" =>
        \A ci \in 1..Len(calls) :
            LET c == calls[ci]
            IN c.op = "add_popcount" =>
                 Cardinality({j \in 1..Len(c.vs) : model[c.vs[j]]}) = c.k

C4_Witness ==
    /\ solved = "sat"
    /\ \E ci \in 1..Len(calls) :
          calls[ci].op = "add_popcount" /\ Len(calls[ci].vs) = 4 /\ calls[ci].k = 2

\* C5: when the formula holds one add_popcount(vars, k) with k <= N and nothing
\* else, its models projected on vars are exactly the sequences Choose::new(N, k)
\* yields, which are the C(N,k) indicator sequences with k true positions;
\* 10 of them for N = 5, k = 2.
Projected(c) == {[j \in 1..Len(c.vs) |-> m[c.vs[j]]] : m \in Models(formula)}

C5_PopcountModels ==
    (Len(calls) = 1 /\ calls[1].op = "add_popcount" /\ calls[1].k <= Len(calls[1].vs)) =>
        LET c == calls[1]
            N == Len(c.vs)
            yielded == ChooseAll(N, c.k)
        IN /\ Projected(c) = {yielded[i] : i \in 1..Len(yielded)}
           /\ Projected(c) = KSubsets(N, c.k)
           /\ Cardinality(Projected(c)) = Binom(N, c.k)
           /\ (N = 5 /\ c.k = 2) => Cardinality(Projected(c)) = 10

C5_Witness ==
    /\ Len(calls) = 1
    /\ calls[1].op = "add_popcount"
    /\ Len(calls[1].vs) = 5
    /\ calls[1].k = 2
    /\ solved = "sat"

\* ------------------------------------------------ properties of the integers
CallsOf(op) == {i \in 1..Len(calls) : calls[i].op = op}
TrueValues(m, var) == {j \in 1..Len(var.values) : Holds(m, var.values[j])}
RangeOf(var) == var.lo..var.hi

\* C2: after any sequence of new_var, sum, not_equals and equals calls, in
\* every model solve returns each Var created by new_var or sum has exactly
\* one of its value literals true, and Model::value returns a value inside
\* the Var's declared range.
C2_OneHotInRange ==
    solved = "sat" =>
        \A i \in 1..Len(ivars) :
            /\ Cardinality(TrueValues(model, ivars[i])) = 1
            /\ HasValue(model, ivars[i])
            /\ Value(model, ivars[i]) \in RangeOf(ivars[i])

C2_Witness ==
    /\ solved = "sat"
    /\ \E i \in CallsOf("sum") :
          /\ Len(ivars[calls[i].res].values) >= 3
          /\ Cardinality(TrueValues(model, ivars[calls[i].res])) = 1
          /\ Value(model, ivars[calls[i].res]) \in RangeOf(ivars[calls[i].res])

\* C3: sum(a, b) returns a new Var whose range is [a.lo + b.lo, a.hi + b.hi],
\* and in every model of the formula value(result) = value(a) + value(b);
\* with a over 1..=6, b over 1..=8 and the sum fixed to 14 every model
\* decodes (a, b) to (6, 8).
C3_SumRangeAndValue ==
    /\ \A i \in CallsOf("sum") :
          LET c == calls[i]
          IN /\ ~c.panic
             /\ c.res \in 1..Len(ivars)
             /\ c.res > c.a /\ c.res > c.b
             /\ ivars[c.res].lo = ivars[c.a].lo + ivars[c.b].lo
             /\ ivars[c.res].hi = ivars[c.a].hi + ivars[c.b].hi
             /\ \A j \in 1..Len(ivars[c.res].values) :
                   ivars[c.res].values[j] \in (c.nv0 + 1)..c.nv1
             /\ solved = "sat" =>
                   /\ HasValue(model, ivars[c.res])
                   /\ HasValue(model, ivars[c.a])
                   /\ HasValue(model, ivars[c.b])
                   /\ Value(model, ivars[c.res])
                         = Value(model, ivars[c.a]) + Value(model, ivars[c.b])
    /\ ~TwoVarsSum.panic /\ ~TwoVarsEquals.panic
    /\ TwoVarsModels # {}
    /\ \A m \in TwoVarsModels :
          /\ HasValue(m, TwoVarsA.v) /\ Value(m, TwoVarsA.v) = 6
          /\ HasValue(m, TwoVarsB.v) /\ Value(m, TwoVarsB.v) = 8

C3_Witness ==
    /\ solved = "sat"
    /\ \E i \in CallsOf("sum") :
          LET c == calls[i]
          IN /\ c.a # c.b
             /\ Len(ivars[c.a].values) >= 2
             /\ Len(ivars[c.b].values) >= 2
             /\ Value(model, ivars[c.a]) > ivars[c.a].lo
             /\ Value(model, ivars[c.b]) = ivars[c.b].lo
             /\ Value(model, ivars[c.res])
                   = Value(model, ivars[c.a]) + Value(model, ivars[c.b])

\* C10: after not_equals(a, b), in every model of the formula, if value(a)
\* lies in the intersection of a's and b's ranges then value(a) # value(b).
C10_NotEqualsDistinct ==
    solved = "sat" =>
        \A i \in CallsOf("not_equals") :
            LET a == ivars[calls[i].a]
                b == ivars[calls[i].b]
            IN /\ HasValue(model, a)
               /\ HasValue(model, b)
               /\ Value(model, a) \in (RangeOf(a) \cap RangeOf(b))
                     => Value(model, a) # Value(model, b)

C10_Witness ==
    /\ solved = "sat"
    /\ \E i \in CallsOf("not_equals") :
          LET a == ivars[calls[i].a]
              b == ivars[calls[i].b]
          IN /\ calls[i].nc1 > calls[i].nc0
             /\ Value(model, a) \in (RangeOf(a) \cap RangeOf(b))
             /\ Value(model, a) # Value(model, b)
             /\ Value(model, b) \in (RangeOf(a) \cap RangeOf(b))

\* C11: for any two Vars a and b, whatever the relation of their ranges,
\* not_equals(a, b) completes without failure and appends exactly one clause
\* (not a=v or not b=v) for each value v of both ranges, and no other clause.
C11_NotEqualsCompletes ==
    \A i \in CallsOf("not_equals") :
        LET c == calls[i]
            a == ivars[c.a]
            b == ivars[c.b]
            common == RangeOf(a) \cap RangeOf(b)
        IN /\ ~c.panic
           /\ c.nv1 = c.nv0
           /\ c.nc1 - c.nc0 = Cardinality(common)
           /\ \A v \in common :
                 \E j \in (c.nc0 + 1)..c.nc1 :
                    formula.clauses[j] =
                       <<Lit(VarOf(Index(a, v)), FALSE), Lit(VarOf(Index(b, v)), FALSE)>>

\* C12: equals(a, c) with c inside a's range appends exactly one unit clause
\* holding a's literal for c, so that every model of the formula decodes a
\* to c (test::one_variable: d over 1..=6 fixed to 5 decodes to 5).
C12_EqualsFixesValue ==
    /\ \A i \in CallsOf("equals") :
          LET c == calls[i]
              a == ivars[c.a]
          IN c.val \in RangeOf(a) =>
                /\ ~c.panic
                /\ c.nv1 = c.nv0
                /\ c.nc1 = c.nc0 + 1
                /\ formula.clauses[c.nc1] = <<Index(a, c.val)>>
                /\ solved = "sat" => HasValue(model, a) /\ Value(model, a) = c.val
    /\ ~OneVarEquals.panic
    /\ OneVarModels # {}
    /\ \A m \in OneVarModels : HasValue(m, OneVarD.v) /\ Value(m, OneVarD.v) = 5

C12_Witness ==
    /\ solved = "sat"
    /\ \E i \in CallsOf("equals") :
          /\ Len(ivars[calls[i].a].values) >= 2
          /\ calls[i].val > ivars[calls[i].a].lo
          /\ calls[i].nc1 = calls[i].nc0 + 1
          /\ Value(model, ivars[calls[i].a]) = calls[i].val

\* C13: equals(a, c) with c outside a's declared range (below lo or above
\* hi) fails, and leaves the formula's clauses and variables unchanged.
C13_EqualsOutOfRange ==
    [][ (/\ Len(calls') = Len(calls) + 1
         /\ calls'[Len(calls')].op = "equals"
         /\ calls'[Len(calls')].val \notin RangeOf(ivars[calls'[Len(calls')].a]))
        => (status' = "panic" /\ calls'[Len(calls')].panic /\ formula' = formula) ]_vars

C13_Witness ==
    /\ status = "panic"
    /\ Len(calls) >= 2
    /\ calls[Len(calls)].op = "equals"
    /\ calls[Len(calls)].val < ivars[calls[Len(calls)].a].lo
    /\ calls[Len(calls)].nc1 = calls[Len(calls)].nc0
    /\ Len(formula.clauses) = calls[Len(calls)].nc0

\* C16: add_dnf called with zero terms appends the empty clause and
\* allocates no helper, which makes the formula unsatisfiable; so does
\* add_popcount(vars, k) with k > |vars|.
C16_EmptyDnfUnsat ==
    /\ LET g == add_dnf(formula, <<>>)
       IN /\ g.nv = formula.nv
          /\ g.clauses = Append(formula.clauses, <<>>)
          /\ Models(g) = {}
    /\ \A i \in 1..Len(calls) :
          (calls[i].op = "add_popcount" /\ calls[i].k > Len(calls[i].vs)) =>
             /\ calls[i].nv1 = calls[i].nv0
             /\ calls[i].nc1 = calls[i].nc0 + 1
             /\ formula.clauses[calls[i].nc1] = <<>>
             /\ Models(formula) = {}
             /\ solved # "sat"

C16_Witness ==
    /\ solved = "unsat"
    /\ \E i \in 1..Len(calls) :
          /\ calls[i].op = "add_popcount"
          /\ Len(calls[i].vs) >= 2
          /\ calls[i].k > Len(calls[i].vs)
          /\ formula.clauses[calls[i].nc1] = <<>>

\* C17: for three Vars declared over 1..=9, with not_equals applied to each
\* of the three pairs and the iterated pairwise sum fixed by equals to a
\* target T, every model decodes to three pairwise distinct values of 1..=9
\* whose sum is T; for T = 7 the decoded values, sorted, are (1, 2, 4).
C17_DistinctNumbers ==
    /\ solved = "sat" =>
          /\ \A i \in 1..3 : HasValue(model, ivars[i])
          /\ LET a == Value(model, ivars[1])
                 b == Value(model, ivars[2])
                 c == Value(model, ivars[3])
             IN /\ {a, b, c} \subseteq 1..top
                /\ a # b /\ a # c /\ b # c
                /\ a + b + c = target
                /\ (top = 9 /\ target = 7) => {a, b, c} = {1, 2, 4}
    /\ (top = 9 /\ target = 7) => status = "ok" /\ solved # "unsat"

C17_Witness ==
    /\ solved = "sat"
    /\ top = 9
    /\ target = 7
    /\ Len(calls) = 9
    /\ <<Value(model, ivars[1]), Value(model, ivars[2]), Value(model, ivars[3])>>
          = <<4, 1, 2>>

\* C18: Model::value(a) scans a's literals in range order and returns the
\* value whose literal is positive in the model; it panics both when no
\* literal of a is positive in the model and when more than one is.
C18_ValueDecodes ==
    decoded # None =>
        LET a == ivars[1]
            pos == TrueValues(model, a)
        IN /\ Cardinality(pos) = 1 =>
                 \E j \in pos : decoded = Some(a.lo + j - 1)
           /\ Cardinality(pos) = 0 => decoded = Panic
           /\ Cardinality(pos) > 1 => decoded = Panic

\* ------------------------------------------------ properties of the kdoku grid
\* the arithmetic of the puzzle, on unbounded integers
RECURSIVE SumTo(_, _)
SumTo(vals, i) == IF i = 0 THEN 0 ELSE vals[i] + SumTo(vals, i - 1)
RECURSIVE ProductTo(_, _)
ProductTo(vals, i) == IF i = 0 THEN 1 ELSE vals[i] * ProductTo(vals, i - 1)

\* does the constraint hold when its cells take the values vals
HoldsOn(c, vals) ==
    IF c.op = "Plus" THEN SumTo(vals, Len(vals)) = c.result
    ELSE IF c.op = "Times" THEN ProductTo(vals, Len(vals)) = c.result
    ELSE IF c.op = "Minus"
    THEN Len(vals) = 2 /\ (vals[1] - vals[2] = c.result \/ vals[2] - vals[1] = c.result)
    ELSE Len(vals) = 2 /\ (vals[1] = vals[2] * c.result \/ vals[2] = vals[1] * c.result)

CellValues(c, grid) == [j \in 1..Len(c.cells) |-> grid[c.cells[j][1]][c.cells[j][2]]]

WrongArity(c) == c.op \in {"Minus", "Div"} /\ Len(c.cells) # 2

\* a constraint of the right arity that no combination of cell values satisfies
NoCombination(c) ==
    /\ ~WrongArity(c)
    /\ \A vals \in [1..Len(c.cells) -> 1..Side] : ~HoldsOn(c, vals)

IsPermutation(f) == {f[i] : i \in Coords} = 1..Side

LatinSquare(grid) ==
    /\ \A x \in Coords : IsPermutation([y \in Coords |-> grid[x][y]])
    /\ \A y \in Coords : IsPermutation([x \in Coords |-> grid[x][y]])

\* C14: a Minus or Div constraint whose cell list does not have exactly two
\* cells is rejected with LogicalError::UnsupportedConstraint, not with any
\* other outcome.
C14_BinaryArityUnsupported ==
    \A i \in 1..Len(calls) :
        WrongArity(constraints[calls[i].index]) =>
            /\ calls[i].ret = "UnsupportedConstraint"
            /\ outcome = "UnsupportedConstraint"

\* C15: when some constraint of the list has no satisfying value combination,
\* solve returns ImpossibleConstraint for the first such constraint in list
\* order, the SAT solver is never invoked, and that constraint adds no
\* clause and no variable to the formula.  (Lists in which a constraint of
\* the wrong arity comes first are left to C14.)
C15_ImpossibleConstraint ==
    \A i \in 1..Len(constraints) :
        (/\ NoCombination(constraints[i])
         /\ \A j \in 1..(i - 1) :
               ~NoCombination(constraints[j]) /\ ~WrongArity(constraints[j])
         /\ outcome # "running") =>
            /\ outcome = "ImpossibleConstraint"
            /\ Len(calls) = i
            /\ calls[i].ret = "ImpossibleConstraint"
            /\ calls[i].nv1 = calls[i].nv0
            /\ calls[i].nc1 = calls[i].nc0
            /\ solverRuns = 0

\* C19: in every Solution returned by solve every cell holds exactly one
\* value of 1..Side and every row and every column is a permutation of
\* 1..Side; the clauses of BaseGrid::new admit exactly the Latin squares.
C19_LatinSquares ==
    /\ outcome = "Ok" =>
          /\ \A x \in Coords, y \in Coords :
                /\ Cardinality({v \in Coords : Holds(model, CellVar(<<x, y>>, v))}) = 1
                /\ solution[x][y] \in 1..Side
                /\ Holds(model, CellVar(<<x, y>>, solution[x][y] - 1))
          /\ LatinSquare(solution)
    /\ (outcome = "running" /\ constraints = <<>>) =>
          /\ {DecodeGrid(m) : m \in Models(formula)}
                = {g \in [Coords -> [Coords -> 1..Side]] : LatinSquare(g)}
          /\ \A m1 \in Models(formula), m2 \in Models(formula) :
                DecodeGrid(m1) = DecodeGrid(m2) => m1 = m2

C19_Witness ==
    /\ outcome = "Ok"
    /\ Len(constraints) = 2
    /\ LatinSquare(solution)
    /\ solution[0][0] = 2

\* C20: in every Solution returned by solve(constraints) each constraint
\* holds on the decoded grid: Plus the sum, Times the product, two-cell
\* Minus the absolute difference, two-cell Div larger = smaller * result.
C20_ConstraintsHold ==
    outcome = "Ok" =>
        \A i \in 1..Len(constraints) :
            HoldsOn(constraints[i], CellValues(constraints[i], solution))

\* ------------------------------------------------ properties of voisimage
\* the cells of an h x w grid at distance at most one from (x, y), itself included
Adjacent(h, w, x, y) ==
    {c \in (0..(h - 1)) \X (0..(w - 1)) :
        c[1] - x \in {0 - 1, 0, 1} /\ c[2] - y \in {0 - 1, 0, 1}}

\* every hint of p counts the active cells of the painting around it
HintsHold(p, painting) ==
    LET w == p.stride
        h == Len(p.vec) \div w
    IN \A x \in 0..(h - 1), y \in 0..(w - 1) :
          p.vec[x * w + y + 1] # None =>
             Cardinality({c \in Adjacent(h, w, x, y) : painting[c[1] * w + c[2] + 1]})
                = p.vec[x * w + y + 1][1]

\* C21: in every Solution returned by the voisimage Problem::solve each
\* hint k, anywhere on the grid, equals the number of active cells among
\* the hinted cell and its in-grid neighbours; when no painting satisfies
\* all the hints, solve returns None.
C21_HintsCounted ==
    /\ outcome = "Some" =>
          /\ solution.stride = problem.stride
          /\ Len(solution.vec) = Len(problem.vec)
          /\ HintsHold(problem, solution.vec)
    /\ outcome \in {"Some", "None"} =>
          ((~ \E g \in [1..Len(problem.vec) -> BOOLEAN] : HintsHold(problem, g))
              => outcome = "None")

\* ------------------------------------------------ properties of binero
\* the cells of line i of an N x N grid: a row, or a column
RowCells(s, size, x) == [j \in 1..size |-> s.vec[x * size + j]]
ColumnCells(s, size, y) == [i \in 1..size |-> s.vec[(i - 1) * size + y + 1]]

NoTriple(line) ==
    \A j \in 1..(Len(line) - 2) : ~(line[j] = line[j + 1] /\ line[j + 1] = line[j + 2])

Balanced(line) ==
    Cardinality({j \in 1..Len(line) : line[j]}) = Cardinality({j \in 1..Len(line) : ~line[j]})

\* C22: in every Solution returned by the binero Problem::solve for an
\* N x N grid no three consecutive cells of a row or of a column hold the
\* same value, every row and every column holds as many 1 cells as 0
\* cells, and every cell given in the input keeps its value.
C22_BineroRules ==
    outcome = "Some" =>
        LET size == problem.stride
        IN /\ \A i \in 0..(size - 1) :
                 /\ NoTriple(RowCells(solution, size, i))
                 /\ NoTriple(ColumnCells(solution, size, i))
                 /\ Balanced(RowCells(solution, size, i))
                 /\ Balanced(ColumnCells(solution, size, i))
           /\ \A i \in 1..Len(problem.vec) :
                 problem.vec[i] # None => solution.vec[i] = problem.vec[i][1]

\* ------------------------------------------------ properties of kakuro
\* the cells a constraint covers, from its orientation, index and range
Covered(c) ==
    {IF c.vertical THEN <<x, c.index>> ELSE <<c.index, x>> : x \in c.range[1]..(c.range[2] - 1)}

CoveredCells(p) == UNION {Covered(p.constraints[i]) : i \in 1..Len(p.constraints)}

\* the entry of the solution at pos, an Option
Entry(s, pos) == s.vec[pos[1] * s.stride + pos[2] + 1]

RECURSIVE SumOver(_, _)
SumOver(s, cells) ==
    IF cells = {} THEN 0
    ELSE LET c == CHOOSE x \in cells : TRUE
         IN Entry(s, c)[1] + SumOver(s, cells \ {c})

\* C23: in every Solution returned by the kakuro Problem::solve the
\* solution has the problem's shape, every cell covered by a constraint
\* holds a value of 1..=9 decoded from the one Var of that cell, the cells
\* of each constraint are pairwise different and sum to its target, and
\* the cells no constraint covers are None; the problem of
\* test::tiny_kakuro is solved by 1 2 4 / 6 8 9.
C23_KakuroRules ==
    /\ (outcome # "running" /\ problem.shape = <<2, 3>>) =>
          /\ outcome = "Some"
          /\ solution.vec = <<Some(1), Some(2), Some(4), Some(6), Some(8), Some(9)>>
    /\ outcome = "Some" =>
          /\ solution.stride = problem.shape[2]
          /\ Len(solution.vec) = problem.shape[1] * problem.shape[2]
          /\ Len(ivars) = Cardinality(CoveredCells(problem))
          /\ \A x \in 0..(problem.shape[1] - 1), y \in 0..(problem.shape[2] - 1) :
                IF <<x, y>> \in CoveredCells(problem)
                THEN /\ Len(Entry(solution, <<x, y>>)) = 1
                     /\ Entry(solution, <<x, y>>)[1] \in 1..9
                ELSE Entry(solution, <<x, y>>) = None
          /\ \A i \in 1..Len(problem.constraints) :
                /\ \A c \in Covered(problem.constraints[i]), d \in Covered(problem.constraints[i]) :
                      c # d => Entry(solution, c) # Entry(solution, d)
                /\ SumOver(solution, Covered(problem.constraints[i]))
                      = problem.constraints[i].target

\* a row and a column share a cell, one cell is left uncovered
C23_Witness ==
    /\ outcome = "Some"
    /\ Len(problem.constraints) = 2
    /\ Cardinality(CoveredCells(problem)) = 3
    /\ Entry(solution, <<1, 1>>) = None
    /\ Entry(solution, <<0, 0>>) = Some(1)

\* ------------------------------------------------ the shape of what add_dnf adds
\* the number of literals in the terms before term t
RECURSIVE TermOffset(_, _)
TermOffset(dnf, t) == IF t <= 1 THEN 0 ELSE TermOffset(dnf, t - 1) + Len(dnf[t - 1])

\* C24: for a DNF with n terms of sizes s1..sn, add_dnf allocates exactly n
\* helper variables, all of them new and pairwise different, appends for
\* term i exactly si clauses (not h_i or l), one per literal l of the term
\* and in the order of the terms, and then one clause (h_1 or ... or h_n)
\* after all of them: s1 + ... + sn + 1 clauses in total.
C24_DnfShape ==
    \A ci \in 1..Len(calls) :
        LET c == calls[ci]
            terms == Len(c.dnf)
        IN c.op = "add_dnf" =>
             /\ HelperCount(c) = terms
             /\ c.nc1 - c.nc0 = TermOffset(c.dnf, terms + 1) + 1
             /\ \A t \in 1..terms :
                   \A j \in 1..Len(c.dnf[t]) :
                      LET clause == formula.clauses[c.nc0 + TermOffset(c.dnf, t) + j]
                      IN /\ clause = <<0 - (c.nv0 + t), c.dnf[t][j]>>
                         /\ VarOf(clause[1]) > c.nv0
                         /\ \A u \in 1..terms :
                               u # t => VarOf(clause[1]) # VarOf(formula.clauses[c.nc1][u])
             /\ formula.clauses[c.nc1] = [t \in 1..terms |-> c.nv0 + t]
             /\ Cardinality({formula.clauses[c.nc1][t] : t \in 1..terms}) = terms

\* a second call, with two terms, made when two variables and a clause exist
C24_Witness ==
    /\ Len(calls) = 2
    /\ calls[2].op = "add_dnf"
    /\ calls[2].nv0 = 2
    /\ calls[2].nc0 = 1
    /\ Len(calls[2].dnf) = 2
    /\ Len(calls[2].dnf[1]) = 1
    /\ Len(calls[2].dnf[2]) = 1

\* C25: new_var(lo..=hi) with width w = hi - lo + 1 allocates exactly w
\* fresh literals and appends exactly 1 + w(w-1)/2 clauses: first the
\* at-least-one clause over the w literals, then one two-literal
\* mutual-exclusion clause for each unordered pair of distinct values.
C25_NewVarShape ==
    \A ci \in 1..Len(calls) :
        LET c == calls[ci]
        IN c.op = "new_var" =>
             LET var == ivars[c.res]
                 w == var.hi - var.lo + 1
                 exclusions == (c.nc0 + 2)..c.nc1
             IN /\ c.nv1 - c.nv0 = w
                /\ var.values = [i \in 1..w |-> c.nv0 + i]
                /\ c.nc1 - c.nc0 = 1 + (w * (w - 1)) \div 2
                /\ formula.clauses[c.nc0 + 1] = var.values
                /\ \A i \in 1..w, j \in 1..w :
                      i < j =>
                         Cardinality({x \in exclusions :
                            formula.clauses[x] = <<0 - var.values[i], 0 - var.values[j]>>}) = 1
                /\ \A x \in exclusions :
                      \E i \in 1..w, j \in 1..w :
                         /\ i < j
                         /\ formula.clauses[x] = <<0 - var.values[i], 0 - var.values[j]>>

\* a Var of width 3 declared after another one
C25_Witness ==
    /\ Len(calls) >= 2
    /\ calls[2].op = "new_var"
    /\ calls[2].nv0 > 0
    /\ ivars[calls[2].res].lo = 1
    /\ ivars[calls[2].res].hi = 3
    /\ calls[2].nc1 - calls[2].nc0 = 4

\* ------------------------------------------------ properties of the encoders
IsPrefix(s, t) == Len(s) <= Len(t) /\ SubSeq(t, 1, Len(s)) = s

\* C26: every encoding operation (new_var, sum, not_equals, equals,
\* add_dnf, add_popcount) only appends clauses and allocates variables:
\* the clauses the formula held are still there, unchanged and in place,
\* the variable count does not decrease, and the Vars the caller holds,
\* the operands of sum among them, keep their ranges and literals.
C26_Accumulative ==
    [][ /\ formula'.nv >= formula.nv
        /\ IsPrefix(formula.clauses, formula'.clauses)
        /\ IsPrefix(ivars, ivars')
        /\ IsPrefix(uvars, uvars')
        /\ IsPrefix(calls, calls') ]_vars

\* a sum made after two declarations, which has added variables and clauses
C26_Witness ==
    /\ Len(calls) = 3
    /\ calls[3].op = "sum"
    /\ ~calls[3].panic
    /\ calls[3].a # calls[3].b
    /\ calls[3].nv1 > calls[3].nv0
    /\ calls[3].nc1 > calls[3].nc0
    /\ ivars[calls[3].a].hi > ivars[calls[3].a].lo

\* C27: for all n and all k with 0 <= k <= n, the iterator Choose::new(n, k)
\* run to exhaustion and the recursive enumerator choices(n, k) produce the
\* same sequences in the same order.
C27_IteratorMatchesChoices ==
    (k <= n /\ r # None) =>
        /\ IsPrefix(out, r[1])
        /\ it = None => out = r[1]

C27_Witness ==
    /\ n = 4
    /\ k = 2
    /\ it = None
    /\ r # None
    /\ Len(r[1]) = 6
    /\ out = r[1]

\* ------------------------------------------------ properties of intersect
\* the values a range lo..=hi contains
Contained(rg) == rg.lo..rg.hi

\* C28: intersect(a, b) returns exactly the range
\* max(a.start, b.start) ..= min(a.end, b.end), which holds the values
\* contained in both a and b (none when they are disjoint), and
\* intersect(a, b) and intersect(b, a) contain the same values.
C28_IntersectExact ==
    overlap # None =>
        /\ overlap[1] = [lo |-> Max(ranges[1].lo, ranges[2].lo),
                        hi |-> Min(ranges[1].hi, ranges[2].hi)]
        /\ Contained(overlap[1]) = Contained(ranges[1]) \cap Contained(ranges[2])
        /\ Contained(overlap[1]) = Contained(intersect(ranges[2], ranges[1]))

\* ------------------------------------------------ the arithmetic of the kdoku encoder
\* the value the Minus or Div closure computes from a cell value, unbounded
ClosureValue(op, a, res) == IF op = "Minus" THEN a + res ELSE a * res

\* the values the fold of Plus or Times passes through on the cell values vals
RECURSIVE FoldValues(_, _, _)
FoldValues(op, vals, acc) ==
    IF vals = <<>> THEN {acc}
    ELSE {acc} \cup FoldValues(op, Tail(vals),
                               IF op = "Plus" THEN acc + Head(vals) ELSE acc * Head(vals))

\* C29: no arithmetic of the kdoku encoder overflows: for every constraint
\* add_constraint is called on and all cell values a, b, the Minus test
\* (a + result, b + result) and the Div test (a * result, b * result) stay
\* within the 8-bit unsigned range, and the fold of Plus and Times over the
\* cell values stays within the 16-bit unsigned range.
C29_NoOverflow ==
    \A i \in 1..Len(calls) :
        LET c == constraints[calls[i].index]
        IN /\ calls[i].ret # "panic"
           /\ (c.op \in {"Minus", "Div"} /\ Len(c.cells) = 2) =>
                 \A a \in 1..Side : ClosureValue(c.op, a, c.result) <= 255
           /\ c.op \in {"Plus", "Times"} =>
                 \A vals \in [1..Len(c.cells) -> 1..Side] :
                    \A v \in FoldValues(c.op, vals, IF c.op = "Plus" THEN 0 ELSE 1) :
                       v <= 65535

\* ------------------------------------------------ sum and its operands
\* the Problem holds the declarations of a and b followed by sum(a, b)
OnlySum ==
    /\ Len(calls) = 3
    /\ calls[1].op = "new_var"
    /\ calls[2].op = "new_var"
    /\ calls[3].op = "sum"
    /\ calls[3].a # calls[3].b

\* C30: sum does not restrict its operands: in a Problem holding only the
\* declarations of a and b followed by sum(a, b), for every x in a's range
\* and every y in b's range there is a model with value(a) = x,
\* value(b) = y and value(result) = x + y.
C30_SumKeepsOperandsFree ==
    OnlySum =>
        /\ ~calls[3].panic
        /\ \A x \in RangeOf(ivars[calls[3].a]), y \in RangeOf(ivars[calls[3].b]) :
              \E m \in Models(formula) :
                 /\ HasValue(m, ivars[calls[3].a]) /\ Value(m, ivars[calls[3].a]) = x
                 /\ HasValue(m, ivars[calls[3].b]) /\ Value(m, ivars[calls[3].b]) = y
                 /\ HasValue(m, ivars[3]) /\ Value(m, ivars[3]) = x + y

\* a over 1..=3 and b over 2..=3: six pairs of values
C30_Witness ==
    /\ OnlySum
    /\ ~calls[3].panic
    /\ RangeOf(ivars[calls[3].a]) = 1..3
    /\ RangeOf(ivars[calls[3].b]) = 2..3
    /\ Cardinality(Models(formula)) = 6

====
